---- MODULE Spec2Model ----
(***************************************************************************)
(* A model of the ISBN scanner of wiki-isbn-checksum (src/src/main.py,     *)
(* src/src/data_analysis.py).                                              *)
(*                                                                         *)
(* A Python str is modelled as a sequence of code points, each code point  *)
(* written as a one-element string: "0", "-", "X", ... or, for the code    *)
(* points outside ASCII, by its number: "U+00B2" is SUPERSCRIPT TWO,       *)
(* "U+0663" is ARABIC-INDIC DIGIT THREE, "U+00DF" is LATIN SMALL LETTER    *)
(* SHARP S, "U+0130" is LATIN CAPITAL LETTER I WITH DOT ABOVE, "U+0307" is *)
(* COMBINING DOT ABOVE.  A bool result is "True" or "False"; a call that   *)
(* raises is the name of the exception ("ValueError").                     *)
(***************************************************************************)
EXTENDS Integers, Sequences, FiniteSets, TLC

VARIABLES
    isbn,       \* validators: the argument string
    edits,      \* validators: how many edits built the argument from a seed
    vpc,        \* validators: "input" before the calls, "done" after
    r10,        \* validators: what validate_isbn10(isbn) gave
    r13,        \* validators: what validate_isbn13(isbn) gave
    norm,       \* validators: what normalize_isbn(isbn) gave
    article,     \* extractor: the article text
    gaps,       \* extractor: how many gap characters the text holds
    xpc,        \* extractor: "gap", "post", "ready" while the text is
                \* written, "done" after the call
    arg_context,     \* extractor: the argument context_chars of the call
    arg_proximity,   \* extractor: the argument proximity of the call
    potential_isbns, \* extractor: what find_potential_isbns returned
    directory,  \* dispatcher: the paths of the .bz2 files in dumps_dir
    workers_arg,     \* dispatcher: the argument workers
    cpus,       \* dispatcher: what cpu_count() returns
    dpc,        \* dispatcher: where process_all_dumps stands: "start",
                \* "sequential" (the loop of line 393), "pool" (pool.map),
                \* "merge" (the loop of line 424), "done" (returned),
                \* "empty" (returned at line 379), "raised" (left by an
                \* exception)
    dump_files, \* dispatcher: the sorted list of paths
    workers,    \* dispatcher: the effective pool size
    idx,        \* dispatcher: how many list elements the loop has handled
    task,       \* dispatcher: per list position, "queued", "running" or
                \* "finished"
    pool_results,    \* dispatcher: per list position, the worker's tuple
    mpc,        \* main: "call" while process_all_dumps runs, "no_articles"
                \* after the return of line 646, "reported" at its end
    report,     \* main: the report file save_report wrote, if any
    csv,        \* main: the file save_failed_isbns_to_csv wrote, if any
    printed,    \* main: the notices printed on stdout
    completed,  \* dispatcher: the paths in the order of the "Completed"
                \* lines printed for them
    raw,        \* reader: the page elements of the dump's document, in order
    rpos,       \* reader: how many page elements have ended
    rpc,        \* reader: "reading", "exhausted" after the last event
    yielded,    \* reader: the (title, text) pairs yielded so far
    languages_arg,   \* downloader: the argument languages (--languages)
    max_connections, \* downloader: the argument max_connections
    dry_run,    \* downloader: the argument dry_run
    target_dir, \* downloader: the dump files on disk: language code of the
                \* file name |-> bytes the file holds
    runs,       \* downloader: how many runs have started
    wpc,        \* downloader: where download_wikipedia_dumps stands:
                \* "start", "discover" (the loop of line 351), "pool" (the
                \* with block of line 369), "returned", or "killed" when
                \* the process was killed
    existing,   \* downloader: what get_existing_dumps returned
    to_download,     \* downloader: the list of line 326
    checked,    \* downloader: how many of to_download the loop has handled
    dump_urls,  \* downloader: the keys of dump_urls in insertion order
    job,        \* downloader: per submitted language, the state of its
                \* download_file call: "queued", "head" and "get" while
                \* the answer to that request is out, "open" before the
                \* file is opened, "writing" in the loop over the chunks,
                \* "counting" between the write of a chunk and the update
                \* of the counts, "done", "failed"
    retry_count,     \* find_available_dump: the argument retry_count of the
                \* call that runs
    request_delay,   \* find_available_dump: the argument request_delay
    fpc,        \* find_available_dump: "sleep" before a request of the
                \* index page, "index" while it is out, "dates" in the loop
                \* of line 271, "returned"
    slept,      \* find_available_dump: the arguments of time.sleep so far
    responses,  \* find_available_dump: how each request of the index page
                \* ended so far
    dates,      \* find_available_dump: the dates of the index page, latest first
    date_pos,   \* find_available_dump: how many dates the loop has handled
    file_url,   \* find_available_dump: what was returned: "None" or "url"
    active_downloads,
    completed_downloads,
    failed_downloads,
    total_bytes_downloaded,
    all_results,
    language_times,
    total_articles_processed,
    language_article_counts

validateVars == <<isbn, edits, vpc, r10, r13, norm>>

extractVars == <<article, gaps, xpc, arg_context, arg_proximity, potential_isbns>>

aggregateVars ==
    <<all_results, language_times, total_articles_processed,
      language_article_counts>>

mainVars == <<mpc, report, csv, printed>>

dispatchVars ==
    <<directory, workers_arg, cpus, dpc, dump_files, workers, idx, task,
      pool_results, completed, aggregateVars, mainVars>>

readerVars == <<raw, rpos, rpc, yielded>>

managerVars ==
    <<active_downloads, completed_downloads, failed_downloads,
      total_bytes_downloaded>>

downloadVars ==
    <<languages_arg, max_connections, dry_run, target_dir, runs, wpc,
      existing, to_download, checked, dump_urls, job, managerVars>>

finderVars ==
    <<retry_count, request_delay, fpc, slept, responses, dates, date_pos,
      file_url>>

inputVars == <<readerVars, downloadVars, finderVars>>

vars == <<validateVars, extractVars, dispatchVars, inputVars>>

(***************************************************************************)
(* Code points: the classes Python's str methods and re module see.        *)
(***************************************************************************)

\* [0-9] of a regular expression
AsciiDigit == {"0", "1", "2", "3", "4", "5", "6", "7", "8", "9"}

\* \d of a str pattern: the Unicode decimal digits (category Nd)
IsDecimal(c) == c \in AsciiDigit \cup {"U+0663"}

\* str.isdigit() of one character: the decimal digits and the other
\* characters with a digit value, such as the superscripts
IsDigitChar(c) == IsDecimal(c) \/ c = "U+00B2"

\* \s of a str pattern, and the characters str.strip() removes: "U+000B" is
\* LINE TABULATION, "U+00A0" is NO-BREAK SPACE
IsSpace(c) == c \in {" ", "\n", "\t", "\r", "\f", "U+000B", "U+00A0"}

\* int(c) of one character: its value, or -1 where int() raises ValueError
IntOf(c) ==
    CASE c = "0" -> 0 [] c = "1" -> 1 [] c = "2" -> 2 [] c = "3" -> 3
      [] c = "4" -> 4 [] c = "5" -> 5 [] c = "6" -> 6 [] c = "7" -> 7
      [] c = "8" -> 8 [] c = "9" -> 9 [] c = "U+0663" -> 3
      [] OTHER -> -1

\* the letters A-Z and a-z, in the order of their code points
AsciiUpper ==
    <<"A", "B", "C", "D", "E", "F", "G", "H", "I", "J", "K", "L", "M",
      "N", "O", "P", "Q", "R", "S", "T", "U", "V", "W", "X", "Y", "Z">>

AsciiLower ==
    <<"a", "b", "c", "d", "e", "f", "g", "h", "i", "j", "k", "l", "m",
      "n", "o", "p", "q", "r", "s", "t", "u", "v", "w", "x", "y", "z">>

\* the letters of \w
AsciiLetters ==
    {AsciiUpper[k] : k \in 1..26} \cup {AsciiLower[k] : k \in 1..26}

\* \w of a str pattern: the characters str.isalnum() accepts and the
\* underscore
IsWord(c) ==
    \/ IsDigitChar(c)
    \/ c \in AsciiLetters
    \/ c \in {"_", "U+00DF", "U+0130"}

\* str.upper() of the letters a-z, str.lower() of the letters A-Z
CaseMap ==
    [c \in AsciiLetters |->
        IF \E k \in 1..26 : AsciiLower[k] = c
        THEN AsciiUpper[CHOOSE k \in 1..26 : AsciiLower[k] = c]
        ELSE AsciiLower[CHOOSE k \in 1..26 : AsciiUpper[k] = c]]

\* the small letters, the capital letters
SmallLetters == {AsciiLower[k] : k \in 1..26}

CapitalLetters == {AsciiUpper[k] : k \in 1..26}

\* str.upper() of one character (a string: sharp s becomes two letters)
UpperChar(c) ==
    IF c \in SmallLetters THEN <<CaseMap[c]>>
    ELSE IF c = "U+00DF" THEN <<"S", "S">>
    ELSE <<c>>

\* str.lower() of one character (a string: dotted capital I becomes i and
\* a combining dot)
LowerChar(c) ==
    IF c \in CapitalLetters THEN <<CaseMap[c]>>
    ELSE IF c = "U+0130" THEN <<"i", "U+0307">>
    ELSE <<c>>

RECURSIVE Upper(_)
\* str.upper()
Upper(s) == IF s = <<>> THEN <<>> ELSE UpperChar(Head(s)) \o Upper(Tail(s))

RECURSIVE Lower(_)
\* str.lower()
Lower(s) == IF s = <<>> THEN <<>> ELSE LowerChar(Head(s)) \o Lower(Tail(s))

\* re.sub(r'[-\s]', '', s)
StripSeparators(s) == SelectSeq(s, LAMBDA c : ~(c = "-" \/ IsSpace(c)))

\* str.isdigit(): non-empty and every character a digit character
IsDigitStr(s) == s # <<>> /\ \A i \in 1..Len(s) : IsDigitChar(s[i])

\* whether int() raises on some character of s
IntRaises(s) == \E i \in 1..Len(s) : IntOf(s[i]) = -1

(***************************************************************************)
(* The validators.                                                         *)
(***************************************************************************)

RECURSIVE WeightedSum10(_, _)
\* the loop of validate_isbn10: sum of int(cleaned[i]) * (10 - i), i < 9,
\* with i counted from 0 (here k = i + 1, from k up to 9)
WeightedSum10(cleaned, k) ==
    IF k > 9 THEN 0
    ELSE IntOf(cleaned[k]) * (11 - k) + WeightedSum10(cleaned, k + 1)

\* validate_isbn10 with the modulus of the ISBN-13 rule (total % 10)
validate_isbn10_mod10(s) ==
    LET cleaned == Upper(StripSeparators(s)) IN
    IF Len(cleaned) # 10 THEN "False"
    ELSE IF ~IsDigitStr(SubSeq(cleaned, 1, 9)) THEN "False"
    ELSE IF ~(IsDigitChar(cleaned[10]) \/ cleaned[10] = "X") THEN "False"
    ELSE IF IntRaises(SubSeq(cleaned, 1, 9)) THEN "ValueError"
    ELSE IF cleaned[10] # "X" /\ IntOf(cleaned[10]) = -1 THEN "ValueError"
    ELSE LET total == WeightedSum10(cleaned, 1)
                      + (IF cleaned[10] = "X" THEN 10 ELSE IntOf(cleaned[10]))
         IN IF total % 10 = 0 THEN "True" ELSE "False"

\* validate_isbn10 without the .upper() of its first line
validate_isbn10_no_upper(s) ==
    LET cleaned == StripSeparators(s) IN
    IF Len(cleaned) # 10 THEN "False"
    ELSE IF ~IsDigitStr(SubSeq(cleaned, 1, 9)) THEN "False"
    ELSE IF ~(IsDigitChar(cleaned[10]) \/ cleaned[10] = "X") THEN "False"
    ELSE IF IntRaises(SubSeq(cleaned, 1, 9)) THEN "ValueError"
    ELSE IF cleaned[10] # "X" /\ IntOf(cleaned[10]) = -1 THEN "ValueError"
    ELSE LET total == WeightedSum10(cleaned, 1)
                      + (IF cleaned[10] = "X" THEN 10 ELSE IntOf(cleaned[10]))
         IN IF total % 11 = 0 THEN "True" ELSE "False"

validate_isbn10(s) ==
    LET cleaned == Upper(StripSeparators(s)) IN
    IF Len(cleaned) # 10 THEN "False"
    ELSE IF ~IsDigitStr(SubSeq(cleaned, 1, 9)) THEN "False"
    ELSE IF ~(IsDigitChar(cleaned[10]) \/ cleaned[10] = "X") THEN "False"
    ELSE IF IntRaises(SubSeq(cleaned, 1, 9)) THEN "ValueError"
    ELSE IF cleaned[10] # "X" /\ IntOf(cleaned[10]) = -1 THEN "ValueError"
    ELSE LET total == WeightedSum10(cleaned, 1)
                      + (IF cleaned[10] = "X" THEN 10 ELSE IntOf(cleaned[10]))
         IN IF total % 11 = 0 THEN "True" ELSE "False"

RECURSIVE WeightedSum13(_, _)
\* the loop of validate_isbn13: weight 1 at even i, 3 at odd i, i < 12
\* (k = i + 1)
WeightedSum13(cleaned, k) ==
    IF k > 12 THEN 0
    ELSE (IF (k - 1) % 2 = 0 THEN IntOf(cleaned[k]) ELSE IntOf(cleaned[k]) * 3)
         + WeightedSum13(cleaned, k + 1)

\* validate_isbn13 without the outer "% 10" of the check digit
validate_isbn13_no_wrap(s) ==
    LET cleaned == StripSeparators(s) IN
    IF Len(cleaned) # 13 \/ ~IsDigitStr(cleaned) THEN "False"
    ELSE IF IntRaises(SubSeq(cleaned, 1, 12)) THEN "ValueError"
    ELSE LET total == WeightedSum13(cleaned, 1)
             check_digit == 10 - (total % 10)
         IN IF IntOf(cleaned[13]) = -1 THEN "ValueError"
            ELSE IF IntOf(cleaned[13]) = check_digit THEN "True" ELSE "False"

validate_isbn13(s) ==
    LET cleaned == StripSeparators(s) IN
    IF Len(cleaned) # 13 \/ ~IsDigitStr(cleaned) THEN "False"
    ELSE IF IntRaises(SubSeq(cleaned, 1, 12)) THEN "ValueError"
    ELSE LET total == WeightedSum13(cleaned, 1)
             check_digit == (10 - (total % 10)) % 10
         IN IF IntOf(cleaned[13]) = -1 THEN "ValueError"
            ELSE IF IntOf(cleaned[13]) = check_digit THEN "True" ELSE "False"

\* data_analysis.normalize_isbn on a str
normalize_isbn(s) == Upper(StripSeparators(s))

(***************************************************************************)
(* The candidate extractor.  Positions are Python's: the first character   *)
(* of a string is at position 0 (element 1 of the sequence), and a slice   *)
(* t[a:b] is SubSeq(t, a + 1, b).                                          *)
(***************************************************************************)

Max(a, b) == IF a >= b THEN a ELSE b

Min(a, b) == IF a <= b THEN a ELSE b

\* t[a:b]
Slice(t, a, b) == SubSeq(t, a + 1, b)

\* whether the characters of lit stand in t from position p on
StartsWith(t, p, lit) ==
    /\ p + Len(lit) <= Len(t)
    /\ \A k \in 1..Len(lit) : t[p + k] = lit[k]

\* the negated class of url_pattern: anything but whitespace, the brackets
\* and | ^, the double quote (U+0022), the backslash (U+005C) and the
\* backtick (U+0060)
IsUrlChar(c) ==
    ~(IsSpace(c) \/ c \in {"<", ">", "{", "}", "|", "^", "[", "]",
                           "U+0022", "U+005C", "U+0060"})

RECURSIVE UrlRunEnd(_, _)
\* the end of the run of URL characters that begins at position p
UrlRunEnd(t, p) ==
    IF p < Len(t) /\ IsUrlChar(t[p + 1]) THEN UrlRunEnd(t, p + 1) ELSE p

\* url_pattern without the "?" after the s: only https:// begins a URL
UrlMatchEnd_https_only(t, p) ==
    LET body == IF StartsWith(t, p, <<"h", "t", "t", "p", "s", ":", "/", "/">>)
                THEN p + 8
                ELSE -1
        run == UrlRunEnd(t, body)
    IN  IF body = -1 THEN -1
        ELSE IF run > body THEN run ELSE -1

\* url_pattern matched at position p: the end of the match, or -1
UrlMatchEnd(t, p) ==
    LET body == IF StartsWith(t, p, <<"h", "t", "t", "p", "s", ":", "/", "/">>)
                THEN p + 8
                ELSE IF StartsWith(t, p, <<"h", "t", "t", "p", ":", "/", "/">>)
                THEN p + 7
                ELSE -1
        run == UrlRunEnd(t, body)
    IN  IF body = -1 THEN -1
        ELSE IF run > body THEN run ELSE -1

RECURSIVE SubUrlsFrom(_, _)
\* re.sub(url_pattern, ' ', text) from position p on, as the origin of each
\* character of the result: the position in text it is copied from, or -1
\* for the blank that replaces a URL
SubUrlsFrom(t, p) ==
    LET e == UrlMatchEnd(t, p) IN
    IF p >= Len(t) THEN <<>>
    ELSE IF e # -1
         THEN <<-1>> \o SubUrlsFrom(t, e)
         ELSE <<p>> \o SubUrlsFrom(t, p + 1)

\* the origins of the characters of text_without_urls
UrlOrigins(t) == SubUrlsFrom(t, 0)

\* text_without_urls = re.sub(url_pattern, ' ', text)
WithoutUrls(t) ==
    LET o == UrlOrigins(t) IN
    [k \in 1..Len(o) |-> IF o[k] = -1 THEN " " ELSE t[o[k] + 1]]

\* [\d\-\s] of the pattern
IsBodyChar(c) == IsDecimal(c) \/ c = "-" \/ IsSpace(c)

\* [\dXx] of the pattern
IsLastChar(c) == IsDecimal(c) \/ c = "X" \/ c = "x"

\* \b after a word character that ends at position e
BoundaryAt(t, e) == e = Len(t) \/ ~IsWord(t[e + 1])

\* whether \d[\d\-\s]{n}[\dXx]\b matches at position p with n middle
\* characters
MatchesWith(t, p, n) ==
    /\ p + n + 2 <= Len(t)
    /\ IsDecimal(t[p + 1])
    /\ \A k \in 1..n : IsBodyChar(t[p + 1 + k])
    /\ IsLastChar(t[p + n + 2])
    /\ BoundaryAt(t, p + n + 2)

\* the pattern (?<![0-9])(\d[\d\-\s]{8,16}[\dXx])\b matched at position p:
\* the end of the match (greedy: the longest repetition that lets the rest
\* match), or -1
PatternMatchEnd(t, p) ==
    LET lens == {n \in 8..16 : MatchesWith(t, p, n)} IN
    IF p > 0 /\ t[p] \in AsciiDigit THEN -1
    ELSE IF ~IsDecimal(t[p + 1]) THEN -1
    ELSE IF lens = {} THEN -1
    ELSE p + 2 + (CHOOSE n \in lens : \A m \in lens : m <= n)

RECURSIVE FindIterFrom(_, _)
\* re.finditer(pattern, t) from position p on: the matches, left to right
\* and non-overlapping, each as [start, end]
FindIterFrom(t, p) ==
    LET e == PatternMatchEnd(t, p) IN
    IF p >= Len(t) THEN <<>>
    ELSE IF e # -1
         THEN <<[start |-> p, end |-> e]>> \o FindIterFrom(t, e)
         ELSE FindIterFrom(t, p + 1)

RECURSIVE RFind(_, _, _)
\* s.rfind(lit), searching from position p downwards: the highest position
\* at most p where lit stands, or -1
RFind(s, lit, p) ==
    IF p < 0 THEN -1
    ELSE IF StartsWith(s, p, lit) THEN p
    ELSE RFind(s, lit, p - 1)

has_isbn_nearby(text, match_start, match_end, max_distance) ==
    LET search_start == Max(0, match_start - max_distance - 4)
        search_text == Lower(Slice(text, search_start, match_start))
        isbn_pos == RFind(search_text, <<"i", "s", "b", "n">>,
                          Len(search_text) - 4)
    IN  IF isbn_pos # -1
        THEN Len(search_text) - isbn_pos - 4 <= max_distance
        ELSE FALSE

RECURSIVE LStrip(_)
LStrip(s) == IF s # <<>> /\ IsSpace(Head(s)) THEN LStrip(Tail(s)) ELSE s

RECURSIVE RStrip(_)
RStrip(s) ==
    IF s # <<>> /\ IsSpace(s[Len(s)]) THEN RStrip(SubSeq(s, 1, Len(s) - 1))
    ELSE s

\* str.strip()
Strip(s) == RStrip(LStrip(s))

\* the test on the cleaned match with the lengths between 10 and 13 let
\* through as well
ShapeOk_between(cleaned) ==
    \/ /\ Len(cleaned) \in 10..12
       /\ IsDigitStr(SubSeq(cleaned, 1, 9))
       /\ IsDigitChar(cleaned[10]) \/ cleaned[10] = "X"
    \/ /\ Len(cleaned) = 13
       /\ IsDigitStr(cleaned)

\* the test of lines 132-133 and 145-146 on the cleaned match
ShapeOk(cleaned) ==
    \/ /\ Len(cleaned) = 10
       /\ IsDigitStr(SubSeq(cleaned, 1, 9))
       /\ IsDigitChar(cleaned[10]) \/ cleaned[10] = "X"
    \/ /\ Len(cleaned) = 13
       /\ IsDigitStr(cleaned)

\* the body of the for loop of find_potential_isbns for one match: the
\* candidates it appends (none or one).  start and end are match.start()
\* and match.end(), kept beside the two keys of the dict.
CandidateOf(twu, m, context_chars, proximity) ==
    LET isbn_text == Slice(twu, m.start, m.end)
        cleaned == Upper(StripSeparators(isbn_text))
        start == Max(0, m.start - context_chars)
        end == Min(Len(twu), m.end + context_chars)
        context == Strip(Slice(twu, start, end))
    IN  IF ShapeOk(cleaned)
           /\ has_isbn_nearby(twu, m.start, m.end, proximity)
        THEN <<[isbn |-> isbn_text, context |-> context,
                start |-> m.start, end |-> m.end]>>
        ELSE <<>>

RECURSIVE CandidatesOf(_, _, _, _)
\* the for loop of find_potential_isbns over the matches ms
CandidatesOf(twu, ms, context_chars, proximity) ==
    IF ms = <<>> THEN <<>>
    ELSE CandidateOf(twu, Head(ms), context_chars, proximity)
         \o CandidatesOf(twu, Tail(ms), context_chars, proximity)

find_potential_isbns(text, context_chars, proximity) ==
    LET text_without_urls == WithoutUrls(text) IN
    CandidatesOf(text_without_urls, FindIterFrom(text_without_urls, 0),
                 context_chars, proximity)

(***************************************************************************)
(* The validators' arguments: a seed string changed by at most MaxEdits    *)
(* edits (a character replaced, a separator inserted, a character          *)
(* deleted), then handed to validate_isbn10, validate_isbn13 and           *)
(* normalize_isbn.                                                         *)
(***************************************************************************)

MaxEdits == 1

Seeds ==
    { <<"0", "3", "0", "6", "4", "0", "6", "1", "5", "2">>,
      <<"1", "-", "5", "5", "8", "6", "0", "-", "8", "3", "2", "-", "x">>,
      <<"0", " ", "8", "0", "4", "4", " ", "2", "9", "5", "7", " ", "X">>,
      <<"1", "2", "3", "4", "5", "6", "7", "8", "9", "0">>,
      <<"9", "7", "8", "0", "3", "0", "6", "4", "0", "6", "1", "5", "0">>,
      <<"1", "3", "0", "6", "4", "0", "6", "1", "5", "U+0663">>,
      <<"9", "7", "8", "0", "U+0663", "0", "6", "4", "0", "6", "1", "5", "7">> }

ReplaceChars == AsciiDigit \cup {"x", "U+00B2", "U+0663", "U+00DF"}

InsertChars == {"-", "\n"}

ReplaceAt(s, i, c) == [s EXCEPT ![i] = c]

InsertAt(s, i, c) == SubSeq(s, 1, i) \o <<c>> \o SubSeq(s, i + 1, Len(s))

DeleteAt(s, i) == SubSeq(s, 1, i - 1) \o SubSeq(s, i + 1, Len(s))

\* the dispatcher's variables while another part of the program is checked
IdleReader ==
    /\ raw = <<>>
    /\ rpos = 0
    /\ rpc = "reading"
    /\ yielded = <<>>

IdleDownload ==
    /\ languages_arg = <<>>
    /\ max_connections = 1
    /\ dry_run = FALSE
    /\ target_dir = <<>>
    /\ runs = 0
    /\ wpc = "start"
    /\ existing = {}
    /\ to_download = <<>>
    /\ checked = 0
    /\ dump_urls = <<>>
    /\ job = <<>>
    /\ active_downloads = <<>>
    /\ completed_downloads = <<>>
    /\ failed_downloads = <<>>
    /\ total_bytes_downloaded = 0

\* find_available_dump's variables while another part is checked
IdleFinder ==
    /\ retry_count = 0
    /\ request_delay = 0
    /\ fpc = "idle"
    /\ slept = <<>>
    /\ responses = <<>>
    /\ dates = <<>>
    /\ date_pos = 0
    /\ file_url = "None"

IdleInput == IdleReader /\ IdleDownload /\ IdleFinder

IdleDispatch ==
    /\ directory = {}
    /\ workers_arg = 1
    /\ cpus = 1
    /\ dpc = "idle"
    /\ dump_files = <<>>
    /\ workers = 1
    /\ idx = 0
    /\ task = <<>>
    /\ pool_results = <<>>
    /\ completed = <<>>
    /\ mpc = "call"
    /\ report = [written |-> FALSE]
    /\ csv = [written |-> FALSE]
    /\ printed = <<>>
    /\ all_results = <<>>
    /\ language_times = <<>>
    /\ total_articles_processed = 0
    /\ language_article_counts = <<>>

\* the extractor's variables while another part of the program is checked
IdleExtract ==
    /\ article = <<>>
    /\ gaps = 0
    /\ xpc = "idle"
    /\ arg_context = 0
    /\ arg_proximity = 0
    /\ potential_isbns = <<>>

InitValidate ==
    /\ isbn \in Seeds
    /\ edits = 0
    /\ vpc = "input"
    /\ r10 = "none"
    /\ r13 = "none"
    /\ norm = <<>>
    /\ IdleExtract
    /\ IdleDispatch
    /\ IdleInput

EditReplace ==
    /\ vpc = "input" /\ edits < MaxEdits
    /\ \E i \in 1..Len(isbn), c \in ReplaceChars : isbn' = ReplaceAt(isbn, i, c)
    /\ edits' = edits + 1
    /\ UNCHANGED <<vpc, r10, r13, norm, extractVars, dispatchVars, inputVars>>

EditInsert ==
    /\ vpc = "input" /\ edits < MaxEdits
    /\ \E i \in 0..Len(isbn), c \in InsertChars : isbn' = InsertAt(isbn, i, c)
    /\ edits' = edits + 1
    /\ UNCHANGED <<vpc, r10, r13, norm, extractVars, dispatchVars, inputVars>>

EditDelete ==
    /\ vpc = "input" /\ edits < MaxEdits
    /\ \E i \in 1..Len(isbn) : isbn' = DeleteAt(isbn, i)
    /\ edits' = edits + 1
    /\ UNCHANGED <<vpc, r10, r13, norm, extractVars, dispatchVars, inputVars>>

\* the three functions called on the argument
CallValidators ==
    /\ vpc = "input"
    /\ r10' = validate_isbn10(isbn)
    /\ r13' = validate_isbn13(isbn)
    /\ norm' = normalize_isbn(isbn)
    /\ vpc' = "done"
    /\ UNCHANGED <<isbn, edits, extractVars, dispatchVars, inputVars>>

NextValidate == EditReplace \/ EditInsert \/ EditDelete \/ CallValidators

SpecValidate == InitValidate /\ [][NextValidate]_vars

(***************************************************************************)
(* The extractor's arguments: a text written as an opening part, up to     *)
(* MaxGap gap characters, an identifier-like run and perhaps a closing     *)
(* part, then handed to find_potential_isbns with a context size and a     *)
(* proximity.                                                              *)
(***************************************************************************)

MaxGap == 2

MaxProximity == 1

MaxContext == 3

PreParts ==
    { <<>>,
      <<"a">>,
      <<"I", "S", "B", "N">>,
      <<"i", "s", "b", "n">>,
      <<"I", "s", "B", "n", ":">>,
      <<"I", "S", "B", "N", " ", "1">>,
      <<"h", "t", "t", "p", ":", "/", "/", "e", "/", "i", "s", "b", "n", "/">>,
      <<"h", "t", "t", "p", "s", ":", "/", "/", "e", "/", "i", "s", "b", "n", "/">>,
      <<"I", "S", "B", "N", " ", "h", "t", "t", "p", ":", "/", "/", "e", "/">>,
      <<"I", "S", "B", "N", "U+0663">>,
      <<"I", "S", "B", "N", "1">> }

GapChars == {" ", "U+0130"}

Numbers ==
    { <<"0", "3", "0", "6", "4", "0", "6", "1", "5", "2">>,
      <<"0", "3", "0", "6", "4", "0", "6", "1", "5", "1">>,
      <<"1", "-", "5", "5", "8", "6", "0", "-", "8", "3", "2", "-", "x">>,
      <<"9", "7", "8", "0", "3", "0", "6", "4", "0", "6", "1", "5", "7">>,
      <<"9", "7", "8", "-", "0", "-", "3", "0", "6", "-", "4", "0", "6", "1", "5", "-", "7">>,
      <<"1", "2", "3", "4", "5", "6", "7", "8", "9", "0", "1">>,
      <<"0", "3", "0", "6", "4", " ", "0", "6", "1", "5">>,
      <<"9", "-", "-", "-", "-", "-", "7", "8", "0", "3", "0", "6", "4", "0", "6", "1", "5", "7">>,
      <<"0", "3", "0", "6", "4", "h", "t", "t", "p", ":", "/", "/", "e", " ", "0", "6", "1", "5", "2">> }

PostParts ==
    { <<" ", "x">>,
      <<"a">>,
      <<" ", "I", "S", "B", "N">>,
      <<",", " ", "I", "S", "B", "N", " ", "9", "7", "8", "0", "3", "0", "6", "4", "0", "6", "1", "5", "7">>,
      <<",", " ", "1", "2", "3", "4", "5", "6", "7", "8", "9", "0", "1">> }

\* the validators' variables while another part of the program is checked
IdleValidate ==
    /\ isbn = <<>>
    /\ edits = 0
    /\ vpc = "idle"
    /\ r10 = "none"
    /\ r13 = "none"
    /\ norm = <<>>

InitExtract ==
    /\ article \in PreParts
    /\ gaps = 0
    /\ xpc = "gap"
    /\ arg_context = 0
    /\ arg_proximity = 0
    /\ potential_isbns = <<>>
    /\ IdleValidate
    /\ IdleDispatch
    /\ IdleInput

AppendGap ==
    /\ xpc = "gap" /\ gaps < MaxGap
    /\ \E c \in GapChars : article' = Append(article, c)
    /\ gaps' = gaps + 1
    /\ UNCHANGED <<xpc, arg_context, arg_proximity, potential_isbns, validateVars, dispatchVars, inputVars>>

AppendNumber ==
    /\ xpc = "gap"
    /\ \E n \in Numbers : article' = article \o n
    /\ xpc' = "post"
    /\ UNCHANGED <<gaps, arg_context, arg_proximity, potential_isbns, validateVars, dispatchVars, inputVars>>

AppendPost ==
    /\ xpc = "post"
    /\ \E q \in PostParts : article' = article \o q
    /\ xpc' = "ready"
    /\ UNCHANGED <<gaps, arg_context, arg_proximity, potential_isbns, validateVars, dispatchVars, inputVars>>

\* find_potential_isbns called on the article
CallFind ==
    /\ xpc \in {"post", "ready"}
    /\ \E c \in {0, MaxContext}, d \in 0..MaxProximity :
          /\ arg_context' = c
          /\ arg_proximity' = d
          /\ potential_isbns' = find_potential_isbns(article, c, d)
    /\ xpc' = "done"
    /\ UNCHANGED <<article, gaps, validateVars, dispatchVars, inputVars>>

NextExtract == AppendGap \/ AppendNumber \/ AppendPost \/ CallFind

SpecExtract == InitExtract /\ [][NextExtract]_vars

(***************************************************************************)
(* The dump processor and the dispatcher.                                  *)
(*                                                                         *)
(* A dump file is given by what reading it does: its path (the name in     *)
(* dumps_dir), the (title, text) pairs extract_articles_from_dump yields,  *)
(* fail_at = -1 when the stream ends normally and otherwise the number of  *)
(* pairs yielded before the reader raises, the message str(e) of that      *)
(* exception, and the whole seconds processing takes.                      *)
(***************************************************************************)

MaxFiles == 3

MaxWorkers == 2

MaxCpus == 3

\* --context and --proximity as main() passes them
DefaultContext == 50

DefaultProximity == 6

Dumps ==
  {
    [path |-> <<"e", "n", "w", "i", "k", "i", "-", "a", ".", "b", "z", "2">>,
     pages |->
         <<[title |-> <<"A", " ", "b">>,
           text |-> <<"I", "S", "B", "N", " ", "0", "3", "0", "6", "4", "0", "6", "1", "5", "2">>],
         [title |-> <<"C">>,
           text |-> <<"n", "o", " ", "i", "s", "b", "n">>]>>,
     fail_at |-> -1, error |-> "", secs |-> 3],
    [path |-> <<"e", "n", "w", "i", "k", "i", "-", "b", ".", "b", "z", "2">>,
     pages |->
         <<[title |-> <<"D">>,
           text |-> <<"I", "S", "B", "N", " ", "0", "3", "0", "6", "4", "0", "6", "1", "5", "1">>]>>,
     fail_at |-> -1, error |-> "", secs |-> 2],
    [path |-> <<"d", "e", "w", "i", "k", "i", "-", "a", ".", "b", "z", "2">>,
     pages |->
         <<[title |-> <<"E">>,
           text |-> <<"x">>],
         [title |-> <<"F", " ", "g">>,
           text |-> <<"I", "S", "B", "N", " ", "9", "7", "8", "0", "3", "0", "6", "4", "0", "6", "1", "5", "7", ",", " ", "i", "s", "b", "n", " ", "1", "5", "5", "8", "6", "0", "8", "3", "2", "x", ",", " ", "I", "S", "B", "N", " ", "9", "7", "8", "-", "0", "-", "3", "0", "6", "-", "4", "0", "6", "1", "5", "-", "8">>]>>,
     fail_at |-> -1, error |-> "", secs |-> 4],
    [path |-> <<"f", "r", "w", "i", "k", "i", "-", "a", ".", "b", "z", "2">>,
     pages |->
         <<[title |-> <<"H">>,
           text |-> <<"I", "S", "B", "N", " ", "0", "3", "0", "6", "4", "0", "6", "1", "5", "2">>],
         [title |-> <<"I">>,
           text |-> <<"y">>]>>,
     fail_at |-> 1, error |-> "no element found: line 3, column 13",
     secs |-> 1],
    [path |-> <<"e", "s", "w", "i", "k", "i", "-", "a", ".", "b", "z", "2">>,
     pages |->
         <<[title |-> <<"P">>,
           text |-> <<"I", "S", "B", "N", " ", "0", "3", "0", "6", "4", "0", "6", "1", "5", "2">>],
         [title |-> <<"Q">>,
           text |-> <<"a">>]>>,
     fail_at |-> 1, error |-> "", secs |-> 1],
    [path |-> <<"d", "u", "m", "p", "1", ".", "b", "z", "2">>,
     pages |->
         <<[title |-> <<"J">>,
           text |-> <<"I", "S", "B", "N", " ", "0", "3", "0", "6", "4", "0", "6", "1", "5", "2">>],
         [title |-> <<"K">>,
           text |-> <<"i", "s", "b", "n", " ", "0", "-", "3", "0", "6", "-", "4", "0", "6", "1", "5", "-", "3", " ", "I", "S", "B", "N", " ", "9", "7", "8", "0", "3", "0", "6", "4", "0", "6", "1", "5", "7">>]>>,
     fail_at |-> -1, error |-> "", secs |-> 5],
    [path |-> <<"i", "t", "w", "i", "k", "i", "-", "a", ".", "b", "z", "2">>,
     pages |->
         <<[title |-> <<"L">>,
           text |-> <<"n", "o", " ", "i", "s", "b", "n", " ", "h", "e", "r", "e">>],
         [title |-> <<"M">>,
           text |-> <<"C", "a", "l", "l", " ", "1", "2", "3", "4", "5", "6", "7", "8", "9", "0", " ", "n", "o", "w">>]>>,
     fail_at |-> -1, error |-> "", secs |-> 2],
    [path |-> <<"z", "h", "-", "y", "u", "e", "w", "i", "k", "i", "-", "a", ".", "b", "z", "2">>,
     pages |->
         <<[title |-> <<"N">>,
           text |-> <<"I", "S", "B", "N", " ", "1", "-", "5", "5", "8", "6", "0", "-", "8", "3", "2", "-", "X", ",", " ", "I", "S", "B", "N", " ", "1", "5", "5", "8", "6", "0", "8", "3", "2", "x", ",", " ", "i", "s", "b", "n", " ", "1", " ", "5", "5", "8", "6", "0", " ", "8", "3", "2", " ", "X">>]>>,
     fail_at |-> -1, error |-> "", secs |-> 1]
  }

AllPaths == {d.path : d \in Dumps}

\* the dump file at a path
DumpAt(dump_path) == CHOOSE d \in Dumps : d.path = dump_path

\* the characters from SPACE to TILDE, in the order of their code points
\* ("U+0022" is QUOTATION MARK, "U+005C" REVERSE SOLIDUS, "U+0060" GRAVE
\* ACCENT)
AsciiChars ==
    <<" ", "!", "U+0022", "#", "$", "%", "&", "'", "(", ")", "*", "+", ",",
      "-", ".", "/", "0", "1", "2", "3", "4", "5", "6", "7", "8", "9",
      ":", ";", "<", "=", ">", "?", "@",
      "A", "B", "C", "D", "E", "F", "G", "H", "I", "J", "K", "L", "M",
      "N", "O", "P", "Q", "R", "S", "T", "U", "V", "W", "X", "Y", "Z",
      "[", "U+005C", "]", "^", "_", "U+0060",
      "a", "b", "c", "d", "e", "f", "g", "h", "i", "j", "k", "l", "m",
      "n", "o", "p", "q", "r", "s", "t", "u", "v", "w", "x", "y", "z",
      "{", "|", "}", "~">>

\* the characters of the class [a-z]
LowerLetters == {AsciiLower[k] : k \in 1..26}

\* [a-z]
IsLowerLetter(c) == c \in LowerLetters

\* the code point of each of these characters: SPACE is 32
CodePoint ==
    [c \in {AsciiChars[k] : k \in 1..Len(AsciiChars)} |->
        31 + CHOOSE k \in 1..Len(AsciiChars) : AsciiChars[k] = c]

\* ord(c) of a character of a path
Ord(c) == CodePoint[c]

RECURSIVE StrLess(_, _)
\* a < b on str
StrLess(a, b) ==
    IF b = <<>> THEN FALSE
    ELSE IF a = <<>> THEN TRUE
    ELSE IF Head(a) # Head(b) THEN Ord(Head(a)) < Ord(Head(b))
    ELSE StrLess(Tail(a), Tail(b))

RECURSIVE InsertSorted(_, _)
InsertSorted(x, sortedSeq) ==
    IF sortedSeq = <<>> THEN <<x>>
    ELSE IF StrLess(x, Head(sortedSeq)) THEN <<x>> \o sortedSeq
    ELSE <<Head(sortedSeq)>> \o InsertSorted(x, Tail(sortedSeq))

RECURSIVE Sorted(_)
\* sorted(listing)
Sorted(listing) ==
    IF listing = <<>> THEN <<>>
    ELSE InsertSorted(Head(listing), Sorted(Tail(listing)))

\* the orders in which glob.glob may list the files of a directory
Listings(dir) ==
    {l \in [1..Cardinality(dir) -> dir] :
        \A i, j \in 1..Cardinality(dir) : i # j => l[i] # l[j]}

get_language_from_dump_path(dump_path) ==
    LET basename == dump_path
        ends == {n \in 1..Len(basename) :
                    /\ \A k \in 1..n : IsLowerLetter(basename[k])
                    /\ StartsWith(basename, n, <<"w", "i", "k", "i", "-">>)}
    IN  IF ends # {}
        THEN SubSeq(basename, 1, CHOOSE n \in ends : \A m \in ends : m <= n)
        ELSE <<"e", "n">>

\* title.replace(' ', '_')
Underscored(title) ==
    [k \in 1..Len(title) |-> IF title[k] = " " THEN "_" ELSE title[k]]

\* a classification by the length alone
IsValid_by_length(result) ==
    IF Len(StripSeparators(result.isbn)) \in {10, 13} THEN "True"
    ELSE "False"

\* the classification of lines 313-328: "True", "False", or the exception
\* a validator raises
IsValid(result) ==
    LET cleaned == StripSeparators(result.isbn) IN
    IF Len(cleaned) = 10 THEN validate_isbn10(result.isbn)
    ELSE IF Len(cleaned) = 13 THEN validate_isbn13(result.isbn)
    ELSE "False"

\* the dict of one candidate: the keys 'isbn' and 'context'
CandidateDict(c) == [isbn |-> c.isbn, context |-> c.context]

\* a loop body that appends an ArticleResult for every article
ArticleResultOf_unconditional(pg, language, context_chars, proximity) ==
    LET found == find_potential_isbns(pg.text, context_chars, proximity)
        isbn_results == [k \in 1..Len(found) |-> CandidateDict(found[k])]
    IN  <<[title |-> pg.title,
           language |-> language,
           url |-> [wiki |-> language, page |-> Underscored(pg.title)],
           total_found |-> Len(isbn_results),
           valid_isbns |-> SelectSeq(isbn_results,
                                     LAMBDA r : IsValid(r) = "True"),
           invalid_isbns |-> SelectSeq(isbn_results,
                                       LAMBDA r : IsValid(r) # "True")]>>

\* a loop body whose second append lacks its "else": every candidate goes
\* to invalid_isbns
ArticleResultOf_no_else(pg, language, context_chars, proximity) ==
    LET found == find_potential_isbns(pg.text, context_chars, proximity)
        isbn_results == [k \in 1..Len(found) |-> CandidateDict(found[k])]
    IN  IF isbn_results = <<>> THEN <<>>
        ELSE <<[title |-> pg.title,
                language |-> language,
                url |-> [wiki |-> language, page |-> Underscored(pg.title)],
                total_found |-> Len(isbn_results),
                valid_isbns |-> SelectSeq(isbn_results,
                                          LAMBDA r : IsValid(r) = "True"),
                invalid_isbns |-> isbn_results]>>

\* the body of the loop of process_single_dump for one article: the
\* ArticleResults it appends (none or one)
ArticleResultOf(pg, language, context_chars, proximity) ==
    LET found == find_potential_isbns(pg.text, context_chars, proximity)
        isbn_results == [k \in 1..Len(found) |-> CandidateDict(found[k])]
    IN  IF isbn_results = <<>> THEN <<>>
        ELSE <<[title |-> pg.title,
                language |-> language,
                url |-> [wiki |-> language, page |-> Underscored(pg.title)],
                total_found |-> Len(isbn_results),
                valid_isbns |-> SelectSeq(isbn_results,
                                          LAMBDA r : IsValid(r) = "True"),
                invalid_isbns |-> SelectSeq(isbn_results,
                                            LAMBDA r : IsValid(r) # "True")]>>

\* an exception of a validator leaves the loop of process_single_dump
ValidatorRaises(pg, context_chars, proximity) ==
    LET found == find_potential_isbns(pg.text, context_chars, proximity) IN
    \E k \in 1..Len(found) : IsValid(CandidateDict(found[k])) = "ValueError"

RECURSIVE ArticleResultsOf(_, _, _, _)
ArticleResultsOf(pgs, language, context_chars, proximity) ==
    IF pgs = <<>> THEN <<>>
    ELSE ArticleResultOf(Head(pgs), language, context_chars, proximity)
         \o ArticleResultsOf(Tail(pgs), language, context_chars, proximity)

\* process_single_dump counting only the articles that hold a candidate
process_single_dump_counts_qualifying(dump_path, context_chars, proximity) ==
    LET d == DumpAt(dump_path)
        language == get_language_from_dump_path(dump_path)
        results == ArticleResultsOf(d.pages, language, context_chars,
                                    proximity)
    IN  IF d.fail_at # -1
        THEN [raised |-> TRUE, message |-> d.error]
        ELSE [raised |-> FALSE,
              results |-> results,
              elapsed |-> d.secs,
              article_count |-> Len(results)]

\* process_single_dump: what it returns, or the exception that leaves it
process_single_dump(dump_path, context_chars, proximity) ==
    LET d == DumpAt(dump_path)
        language == get_language_from_dump_path(dump_path)
    IN  IF \E k \in 1..Len(d.pages) :
               /\ d.fail_at = -1 \/ k <= d.fail_at
               /\ ValidatorRaises(d.pages[k], context_chars, proximity)
        THEN [raised |-> TRUE, message |-> "invalid literal for int()"]
        ELSE IF d.fail_at # -1
        THEN [raised |-> TRUE, message |-> d.error]
        ELSE [raised |-> FALSE,
              results |-> ArticleResultsOf(d.pages, language, context_chars,
                                           proximity),
              elapsed |-> d.secs,
              article_count |-> Len(d.pages)]

\* a worker that hands over what the file gave before the exception
process_single_dump_worker_keeps_partial(dump_path, context_chars, proximity) ==
    LET r == process_single_dump(dump_path, context_chars, proximity)
        d == DumpAt(dump_path)
        n == IF d.fail_at = -1 THEN Len(d.pages) ELSE d.fail_at
    IN  IF ~r.raised
        THEN [dump_path |-> dump_path, dump_results |-> r.results,
              dump_time |-> r.elapsed,
              error |-> [is_none |-> TRUE, message |-> ""],
              article_count |-> r.article_count]
        ELSE [dump_path |-> dump_path,
              dump_results |->
                  ArticleResultsOf(SubSeq(d.pages, 1, n),
                                   get_language_from_dump_path(dump_path),
                                   context_chars, proximity),
              dump_time |-> 0,
              error |-> [is_none |-> FALSE, message |-> r.message],
              article_count |-> n]

\* process_single_dump_worker: the tuple (dump_path, results, elapsed_time,
\* error_message, article_count); error is None (is_none) or str(e)
process_single_dump_worker(dump_path, context_chars, proximity) ==
    LET r == process_single_dump(dump_path, context_chars, proximity) IN
    IF ~r.raised
    THEN [dump_path |-> dump_path, dump_results |-> r.results,
          dump_time |-> r.elapsed,
          error |-> [is_none |-> TRUE, message |-> ""],
          article_count |-> r.article_count]
    ELSE [dump_path |-> dump_path, dump_results |-> <<>>,
          dump_time |-> 0,
          error |-> [is_none |-> FALSE, message |-> r.message],
          article_count |-> 0]

\* what process_single_dump does on each dump with the context size and
\* the proximity main() passes
Processed ==
    [p \in AllPaths |->
        process_single_dump(p, DefaultContext, DefaultProximity)]

\* what process_single_dump_worker returns for each dump with them
WorkerTuples ==
    [p \in AllPaths |->
        process_single_dump_worker(p, DefaultContext, DefaultProximity)]

\* "if error:" on None or a str
Truthy(error) == ~error.is_none /\ error.message # ""

\* d[key] = amount, whatever d held
Accumulate_overwrite(d, key, amount) ==
    [k \in DOMAIN d \cup {key} |-> IF k = key THEN amount ELSE d[k]]

\* d[key] = d.get(key, 0) + amount: the "if language not in ..." and "+="
\* of lines 403-410 and 434-441
Accumulate(d, key, amount) ==
    IF key \in DOMAIN d THEN [d EXCEPT ![key] = d[key] + amount]
    ELSE [k \in DOMAIN d \cup {key} |-> IF k = key THEN amount ELSE d[k]]

\* a merge that counts a file's ArticleResults as its articles per language
Merge_counts_results(dump_path, dump_results, dump_time, article_count) ==
    LET language == get_language_from_dump_path(dump_path) IN
    /\ all_results' = all_results \o dump_results
    /\ total_articles_processed' = total_articles_processed + article_count
    /\ language_times' = Accumulate(language_times, language, dump_time)
    /\ language_article_counts' =
           Accumulate(language_article_counts, language, Len(dump_results))

\* lines 399-410 and 430-441: one dump's results merged into the aggregates
Merge(dump_path, dump_results, dump_time, article_count) ==
    LET language == get_language_from_dump_path(dump_path) IN
    /\ all_results' = all_results \o dump_results
    /\ total_articles_processed' = total_articles_processed + article_count
    /\ language_times' = Accumulate(language_times, language, dump_time)
    /\ language_article_counts' =
           Accumulate(language_article_counts, language, article_count)

\* a run that goes on without looking whether the list is empty
NoDumpFiles_unchecked(files) == FALSE

\* "if not dump_files" of line 377
NoDumpFiles(files) == files = <<>>

\* the pool size without the lower limit of 1
EffectiveWorkers_no_floor(requested, n_files, n_cpus) ==
    LET asked == IF requested = -1 THEN n_cpus - 1 ELSE requested
    IN  Min(Min(asked, n_files), n_cpus)

\* lines 384-386: the pool size settled from --workers, the number of
\* dump files and cpu_count()
EffectiveWorkers(requested, n_files, n_cpus) ==
    LET asked == IF requested = -1 THEN n_cpus - 1 ELSE requested
    IN  Max(1, Min(Min(asked, n_files), n_cpus))

InitDispatch ==
    /\ directory \in {dir \in SUBSET AllPaths : Cardinality(dir) <= MaxFiles}
    /\ workers_arg \in -2..MaxWorkers
    /\ cpus \in 1..MaxCpus
    /\ dpc = "start"
    /\ dump_files = <<>>
    /\ workers = 1
    /\ idx = 0
    /\ task = <<>>
    /\ pool_results = <<>>
    /\ completed = <<>>
    /\ mpc = "call"
    /\ report = [written |-> FALSE]
    /\ csv = [written |-> FALSE]
    /\ printed = <<>>
    /\ all_results = <<>>
    /\ language_times = <<>>
    /\ total_articles_processed = 0
    /\ language_article_counts = <<>>
    /\ IdleValidate
    /\ IdleExtract
    /\ IdleInput

\* lines 375-388: the files found and sorted, the pool size settled
Discover ==
    /\ dpc = "start"
    /\ \E listing \in Listings(directory) :
          LET files == Sorted(listing) IN
          /\ dump_files' = files
          /\ IF NoDumpFiles(files)
             THEN /\ dpc' = "empty"
                  /\ printed' = Append(printed, "No .bz2 dump files found")
                  /\ UNCHANGED workers
             ELSE LET n == EffectiveWorkers(workers_arg, Len(files), cpus)
                  IN  /\ workers' = n
                      /\ dpc' = IF n = 1 THEN "sequential" ELSE "pool"
                      /\ UNCHANGED printed
          /\ task' = [k \in 1..Len(files) |-> "queued"]
    /\ UNCHANGED <<directory, workers_arg, cpus, idx, pool_results,
                   completed, aggregateVars, validateVars, extractVars,
                   mpc, report, csv, inputVars>>

\* lines 393-410: one turn of the sequential loop
SequentialStep ==
    /\ dpc = "sequential" /\ idx < Len(dump_files)
    /\ LET dump_path == dump_files[idx + 1]
           r == Processed[dump_path]
       IN  IF r.raised
           THEN /\ dpc' = "raised"
                /\ UNCHANGED <<idx, completed, aggregateVars>>
           ELSE /\ completed' = Append(completed, dump_path)
                /\ Merge(dump_path, r.results, r.elapsed, r.article_count)
                /\ idx' = idx + 1
                /\ UNCHANGED dpc
    /\ UNCHANGED <<directory, workers_arg, cpus, dump_files, workers, task,
                   pool_results, validateVars, extractVars,
                   mainVars, inputVars>>

\* pool.map: a free worker process takes the next queued task
PoolStart ==
    /\ dpc = "pool"
    /\ Cardinality({k \in DOMAIN task : task[k] = "running"}) < workers
    /\ \E i \in DOMAIN task :
          /\ task[i] = "queued"
          /\ \A k \in 1..(i - 1) : task[k] # "queued"
          /\ task' = [task EXCEPT ![i] = "running"]
    /\ UNCHANGED <<directory, workers_arg, cpus, dpc, dump_files, workers,
                   idx, pool_results, completed, aggregateVars,
                   validateVars, extractVars,
                   mainVars, inputVars>>

\* a map that hands the results over in the order the tasks completed
\* (imap_unordered)
PoolFinish_unordered ==
    /\ dpc = "pool"
    /\ \E i \in DOMAIN task :
          /\ task[i] = "running"
          /\ task' = [task EXCEPT ![i] = "finished"]
          /\ pool_results' = Append(pool_results, WorkerTuples[dump_files[i]])
          /\ completed' =
                 IF Processed[dump_files[i]].raised
                 THEN completed
                 ELSE Append(completed, dump_files[i])
    /\ UNCHANGED <<directory, workers_arg, cpus, dpc, dump_files, workers,
                   idx, aggregateVars, validateVars, extractVars,
                   mainVars, inputVars>>

\* pool.map: a running process_single_dump_worker returns its tuple
PoolFinish ==
    /\ dpc = "pool"
    /\ \E i \in DOMAIN task :
          /\ task[i] = "running"
          /\ task' = [task EXCEPT ![i] = "finished"]
          /\ pool_results' =
                 [k \in DOMAIN pool_results \cup {i} |->
                     IF k = i
                     THEN WorkerTuples[dump_files[i]]
                     ELSE pool_results[k]]
          /\ completed' =
                 IF Processed[dump_files[i]].raised
                 THEN completed
                 ELSE Append(completed, dump_files[i])
    /\ UNCHANGED <<directory, workers_arg, cpus, dpc, dump_files, workers,
                   idx, aggregateVars, validateVars, extractVars,
                   mainVars, inputVars>>

\* a map that returns as soon as one task has finished
PoolJoin_early ==
    /\ dpc = "pool"
    /\ \E k \in DOMAIN task : task[k] = "finished"
    /\ dpc' = "merge"
    /\ UNCHANGED <<directory, workers_arg, cpus, dump_files, workers, idx,
                   task, pool_results, completed, aggregateVars,
                   validateVars, extractVars,
                   mainVars, inputVars>>

\* line 421: pool.map returns the results in the order of worker_args
PoolJoin ==
    /\ dpc = "pool"
    /\ \A k \in DOMAIN task : task[k] = "finished"
    /\ dpc' = "merge"
    /\ UNCHANGED <<directory, workers_arg, cpus, dump_files, workers, idx,
                   task, pool_results, completed, aggregateVars,
                   validateVars, extractVars,
                   mainVars, inputVars>>

\* lines 424-441: one turn of the loop over the workers' results
MergeStep ==
    /\ dpc = "merge" /\ idx < Len(dump_files)
    /\ LET r == pool_results[idx + 1] IN
       IF Truthy(r.error)
       THEN UNCHANGED aggregateVars
       ELSE Merge(r.dump_path, r.dump_results, r.dump_time, r.article_count)
    /\ idx' = idx + 1
    /\ UNCHANGED <<directory, workers_arg, cpus, dpc, dump_files, workers,
                   task, pool_results, completed, validateVars,
                   extractVars,
                   mainVars, inputVars>>

\* lines 443-445: process_all_dumps returns
Return ==
    /\ dpc \in {"sequential", "merge"} /\ idx = Len(dump_files)
    /\ dpc' = "done"
    /\ UNCHANGED <<directory, workers_arg, cpus, dump_files, workers, idx,
                   task, pool_results, completed, aggregateVars,
                   validateVars, extractVars,
                   mainVars, inputVars>>

RECURSIVE Sum(_)
\* sum(...) over the values of the function f; no order of its domain
\* enters
Sum(f) ==
    IF DOMAIN f = {} THEN 0
    ELSE LET x == CHOOSE y \in DOMAIN f : TRUE
         IN  f[x] + Sum([y \in DOMAIN f \ {x} |-> f[y]])

RECURSIVE CandidatesIn(_, _)
\* [isbn for r in results for isbn in r[key]]
CandidatesIn(results, key) ==
    IF results = <<>> THEN <<>>
    ELSE Head(results)[key] \o CandidatesIn(Tail(results), key)

\* the set of re.sub(r'[-\s]', '', isbn['isbn']) of lines 498-505
UniqueOf(candidates) ==
    {StripSeparators(candidates[k].isbn) : k \in DOMAIN candidates}

\* sum(1 for ... if len(re.sub(r'[-\s]', '', isbn['isbn'])) == n)
CountOfLength(candidates, n) ==
    Len(SelectSeq(candidates, LAMBDA c : Len(StripSeparators(c.isbn)) = n))

\* the text of "{x:.2f}" for x = valid / total * 100 where total > 0 and
\* x = 0 otherwise, as hundredths of a percent (the digits without the
\* point).  No quotient of counts below 32 lies halfway between two
\* hundredths, so the rounding has no tie to break.
PassRate(valid, total) ==
    IF total > 0
    THEN LET q == (valid * 10000) \div total
             r == (valid * 10000) % total
         IN  IF 2 * r >= total THEN q + 1 ELSE q
    ELSE 0

\* the entry languages[lang] of lines 483-505 with the lines 555-570 written
\* from it; a line written only under a condition is <<>> when absent
LanguageBlock(lang, results, language_times_, language_article_counts_) ==
    LET mine == SelectSeq(results, LAMBDA r : r.language = lang)
        valid == CandidatesIn(mine, "valid_isbns")
        invalid == CandidatesIn(mine, "invalid_isbns")
        lang_total == Len(valid) + Len(invalid)
    IN  [total_articles_processed |->
             IF lang \in DOMAIN language_article_counts_
             THEN <<language_article_counts_[lang]>> ELSE <<>>,
         articles |-> Len(mine),
         total_isbns |-> lang_total,
         valid_isbns |-> Len(valid),
         invalid_isbns |-> Len(invalid),
         pass_rate |-> PassRate(Len(valid), lang_total),
         unique_valid |-> Cardinality(UniqueOf(valid)),
         unique_invalid |-> Cardinality(UniqueOf(invalid)),
         processing_time |->
             IF lang \in DOMAIN language_times_
             THEN <<language_times_[lang]>> ELSE <<>>]

\* save_report: the figures of the file it writes.  The run date, the
\* elapsed time and the speeds derived from it are left out.
save_report(results, files, times, total_articles, article_counts) ==
    LET articles_with_isbns == Len(results)
        valid == CandidatesIn(results, "valid_isbns")
        invalid == CandidatesIn(results, "invalid_isbns")
        total_valid == Len(valid)
        total_invalid == Len(invalid)
        total_isbns == total_valid + total_invalid
        languages == {results[k].language : k \in DOMAIN results}
    IN  [written |-> TRUE,
         wikis_processed |-> Len(files),
         dump_files |-> files,
         total_articles_processed |-> total_articles,
         articles_with_isbns |-> articles_with_isbns,
         articles_without_isbns |->
             total_articles - articles_with_isbns,
         total_isbns |-> total_isbns,
         total_valid |-> total_valid,
         total_invalid |-> total_invalid,
         pass_rate |-> PassRate(total_valid, total_isbns),
         unique_valid |-> Cardinality(UniqueOf(valid)),
         unique_invalid |-> Cardinality(UniqueOf(invalid)),
         isbn10_valid |-> CountOfLength(valid, 10),
         isbn10_invalid |-> CountOfLength(invalid, 10),
         isbn13_valid |-> CountOfLength(valid, 13),
         isbn13_invalid |-> CountOfLength(invalid, 13),
         language_breakdown |->
             IF Cardinality(languages) > 1
             THEN [lang \in languages |->
                      LanguageBlock(lang, results, times,
                                    article_counts)]
             ELSE <<>>]

\* lines 609-615: the format column; the label 'Invalid (n digits)' is the
\* pair of the word and n
FormatLabel(candidate) ==
    LET cleaned == StripSeparators(candidate.isbn) IN
    IF Len(cleaned) = 10 THEN <<"ISBN-10">>
    ELSE IF Len(cleaned) = 13 THEN <<"ISBN-13">>
    ELSE <<"Invalid", Len(cleaned)>>

RECURSIVE FailedRows(_)
\* lines 601-624: one row per candidate of the invalid lists
FailedRows(results) ==
    IF results = <<>> THEN <<>>
    ELSE LET result == Head(results) IN
         [k \in 1..Len(result.invalid_isbns) |->
             [article_title |-> result.title,
              language |-> result.language,
              isbn |-> result.invalid_isbns[k].isbn,
              format |-> FormatLabel(result.invalid_isbns[k]),
              context |-> result.invalid_isbns[k].context,
              article_url |-> result.url]]
         \o FailedRows(Tail(results))

\* save_failed_isbns_to_csv: the rows under the header of the file
save_failed_isbns_to_csv(results) ==
    [written |-> TRUE, rows |-> FailedRows(results)]

\* main() after process_all_dumps has returned: lines 644-693
Main ==
    /\ mpc = "call"
    /\ dpc \in {"done", "empty"}
    /\ IF all_results = <<>>
       THEN /\ printed' = Append(printed, "No articles found to process.")
            /\ mpc' = "no_articles"
            /\ UNCHANGED <<report, csv>>
       ELSE LET total_invalid ==
                    Len(CandidatesIn(all_results, "invalid_isbns"))
            IN  /\ report' = save_report(all_results, dump_files,
                                language_times, total_articles_processed,
                                language_article_counts)
                /\ IF total_invalid > 0
                   THEN /\ csv' = save_failed_isbns_to_csv(all_results)
                        /\ UNCHANGED printed
                   ELSE /\ printed' =
                               Append(printed,
                                   "No failed ISBNs found - CSV not created")
                        /\ UNCHANGED csv
                /\ mpc' = "reported"
    /\ UNCHANGED <<directory, workers_arg, cpus, dpc, dump_files, workers, idx,
                   task, pool_results, completed, aggregateVars,
                   validateVars, extractVars, inputVars>>

NextDispatch ==
    \/ Discover
    \/ SequentialStep
    \/ PoolStart
    \/ PoolFinish
    \/ PoolJoin
    \/ MergeStep
    \/ Return
    \/ Main

SpecDispatch == InitDispatch /\ [][NextDispatch]_vars

(***************************************************************************)
(* The reader of a dump file.                                              *)
(*                                                                         *)
(* The document is the sequence of its page elements.  Of a page element   *)
(* the reader looks at four descendants, found under the namespace of line *)
(* 43: ns, title and text are <<>> where the element is absent and <<t>>   *)
(* where it is present with the text t (<<>> for an element without text,  *)
(* whose .text is None); redirect tells whether a redirect element exists. *)
(***************************************************************************)

MaxPages == 2

ElementChoices(texts) == {<<>>} \cup {<<t>> : t \in texts}

PageElements ==
    [ns : ElementChoices({<<"0">>, <<"1">>}),
     redirect : BOOLEAN,
     title : ElementChoices({<<>>, <<"T">>}),
     text_elem : ElementChoices({<<>>, <<"x">>, <<"y">>})]

\* "x is not None" for the result of elem.find
Found(element) == element # <<>>

\* the pairs of a page that only passes the namespace test
PairsOf_unfiltered(page) ==
    IF Found(page.ns) /\ page.ns[1] = <<"0">>
    THEN <<[title |-> IF Found(page.title) THEN page.title[1] ELSE <<>>,
            text |-> IF Found(page.text_elem) THEN page.text_elem[1]
                     ELSE <<>>]>>
    ELSE <<>>

\* lines 57-71: the pairs the end of a page element makes the generator
\* yield (none or one)
PairsOf(page) ==
    IF Found(page.ns) /\ page.ns[1] = <<"0">> /\ ~page.redirect
    THEN IF Found(page.title) /\ Found(page.text_elem)
         THEN LET title == page.title[1]
                  text == page.text_elem[1]
              IN  IF title # <<>> /\ text # <<>>
                  THEN <<[title |-> title, text |-> text]>>
                  ELSE <<>>
         ELSE <<>>
    ELSE <<>>

InitReader ==
    /\ raw \in UNION {[1..n -> PageElements] : n \in 0..MaxPages}
    /\ rpos = 0
    /\ rpc = "reading"
    /\ yielded = <<>>
    /\ IdleValidate
    /\ IdleExtract
    /\ IdleDispatch
    /\ IdleDownload
    /\ IdleFinder

\* lines 53-76: the events up to the end of the next page element
ReadPage ==
    /\ rpc = "reading" /\ rpos < Len(raw)
    /\ yielded' = yielded \o PairsOf(raw[rpos + 1])
    /\ rpos' = rpos + 1
    /\ UNCHANGED <<raw, rpc, validateVars, extractVars, dispatchVars,
                   downloadVars, finderVars>>

\* the events have run out: the for loop and the with block end
Exhaust ==
    /\ rpc = "reading" /\ rpos = Len(raw)
    /\ rpc' = "exhausted"
    /\ UNCHANGED <<raw, rpos, yielded, validateVars, extractVars,
                   dispatchVars, downloadVars, finderVars>>

NextReader ==
    \/ ReadPage
    \/ Exhaust

SpecReader == InitReader /\ [][NextReader]_vars

\* an action of the reader is enabled until the generator is exhausted
FairSpecReader == SpecReader /\ WF_vars(NextReader)

(***************************************************************************)
(* The downloader.                                                         *)
(*                                                                         *)
(* Sizes are counted in chunks of CHUNK_SIZE bytes.  A run is one call of  *)
(* download_wikipedia_dumps in a fresh process; the process can be killed  *)
(* while it runs, which leaves the files on disk as they are.              *)
(***************************************************************************)

MaxConnections == 2

MaxRuns == 2

\* the language codes a run may be given
LanguageCodes ==
    <<<<"d", "e">>, <<"e", "n">>,
      <<"z", "h", "_", "y", "u", "e">>,
      <<"z", "h", "_", "m", "i", "n", "_", "n", "a", "n">>>>

\* the size of the dump file the server holds for a language
RemoteSize(lang_code) ==
    IF lang_code \in {<<"d", "e">>,
                      <<"z", "h", "_", "m", "i", "n", "_", "n", "a", "n">>}
    THEN 1
    ELSE 2

\* os.path.basename(dump_url) of line 374
DumpFileName(lang_code) ==
    lang_code \o <<"w", "i", "k", "i", "-", "1", "-", "p", "a", "g",
                   "e", "s", "-", "a", "r", "t", "i", "c", "l", "e",
                   "s", "-", "m", "u", "l", "t", "i", "s", "t", "r",
                   "e", "a", "m", ".", "x", "m", "l", ".", "b", "z",
                   "2">>

\* [a-z\-]
IsCodeChar(c) == IsLowerLetter(c) \/ c = "-"

\* re.match(r'^([a-z\-]+)wiki-', filename) of line 225: group 1, or <<>>
\* where the pattern does not match
MatchedCode(filename) ==
    LET ends == {n \in 1..Len(filename) :
                    /\ \A k \in 1..n : IsCodeChar(filename[k])
                    /\ StartsWith(filename, n, <<"w", "i", "k", "i", "-">>)}
    IN  IF ends # {}
        THEN SubSeq(filename, 1, CHOOSE n \in ends : \A m \in ends : m <= n)
        ELSE <<>>

\* get_existing_dumps: the codes read from the names of the files present
get_existing_dumps(files) ==
    {MatchedCode(DumpFileName(lang_code)) : lang_code \in DOMAIN files}
        \ {<<>>}

\* d[key] = value
DictSet(d, key, value) ==
    [k \in DOMAIN d \cup {key} |-> IF k = key THEN value ELSE d[k]]

\* del d[key]
DictDel(d, key) == [k \in DOMAIN d \ {key} |-> d[k]]

\* the download_file calls that hold a worker thread
Running(jobs) ==
    {l \in DOMAIN jobs :
        jobs[l].st \in {"head", "get", "open", "writing", "counting"}}

\* an executor that starts every submitted call at once
FreeWorker_unbounded(running, max_workers) == TRUE

\* ThreadPoolExecutor(max_workers): a submitted call starts when fewer than
\* max_workers calls hold a thread
FreeWorker(running, max_workers) == running < max_workers

\* the subsequences of a list
SubLists(list) ==
    {SelectSeq(list, LAMBDA x : x \in S) :
        S \in SUBSET {list[k] : k \in DOMAIN list}}

InitDownload ==
    /\ languages_arg \in SubLists(LanguageCodes)
    /\ max_connections \in 1..MaxConnections
    /\ dry_run \in BOOLEAN
    /\ target_dir = <<>>
    /\ runs = 1
    /\ wpc = "start"
    /\ existing = {}
    /\ to_download = <<>>
    /\ checked = 0
    /\ dump_urls = <<>>
    /\ job = <<>>
    /\ active_downloads = <<>>
    /\ completed_downloads = <<>>
    /\ failed_downloads = <<>>
    /\ total_bytes_downloaded = 0
    /\ IdleValidate
    /\ IdleExtract
    /\ IdleDispatch
    /\ IdleReader
    /\ IdleFinder

\* lines 321-345: the existing dumps are read, the list is filtered
StartRun ==
    /\ wpc = "start"
    /\ LET found == get_existing_dumps(target_dir)
           todo == SelectSeq(languages_arg, LAMBDA lang : lang \notin found)
       IN  /\ existing' = found
           /\ to_download' = todo
           /\ wpc' = IF todo = <<>> \/ dry_run THEN "returned"
                     ELSE "discover"
    /\ UNCHANGED <<languages_arg, max_connections, dry_run, target_dir, runs,
                   checked, dump_urls, job, managerVars, validateVars,
                   extractVars, dispatchVars, readerVars,
                   finderVars>>

\* lines 351-360: find_available_dump for the next language finds a dump
\* URL or none
DiscoverUrl ==
    /\ wpc = "discover" /\ checked < Len(to_download)
    /\ LET lang_code == to_download[checked + 1] IN
       \E dump_url_found \in BOOLEAN :
          IF dump_url_found
          THEN /\ dump_urls' = IF \E k \in DOMAIN dump_urls :
                                     dump_urls[k] = lang_code
                               THEN dump_urls
                               ELSE Append(dump_urls, lang_code)
               /\ UNCHANGED failed_downloads
          ELSE /\ failed_downloads' = Append(failed_downloads, lang_code)
               /\ UNCHANGED dump_urls
    /\ checked' = checked + 1
    /\ UNCHANGED <<languages_arg, max_connections, dry_run, target_dir, runs,
                   wpc, existing, to_download, job, active_downloads,
                   completed_downloads, total_bytes_downloaded, validateVars,
                   extractVars, dispatchVars, readerVars,
                   finderVars>>

\* lines 369-379: the executor is created and every download is submitted
SubmitAll ==
    /\ wpc = "discover" /\ checked = Len(to_download)
    /\ wpc' = "pool"
    /\ job' = [lang_code \in {dump_urls[k] : k \in DOMAIN dump_urls} |->
                  [st |-> "queued", mode |-> "wb", resume_pos |-> 0,
                   downloaded |-> 0, total_size |-> 0]]
    /\ UNCHANGED <<languages_arg, max_connections, dry_run, target_dir, runs,
                   existing, to_download, checked, dump_urls, managerVars,
                   validateVars, extractVars, dispatchVars, readerVars,
                   finderVars>>

\* the except branch of download_file, lines 134-140
Fails(lang_code) ==
    /\ job' = [job EXCEPT ![lang_code].st = "failed"]
    /\ active_downloads' = DictDel(active_downloads, lang_code)
    /\ failed_downloads' = Append(failed_downloads, lang_code)
    /\ UNCHANGED <<completed_downloads, total_bytes_downloaded>>

\* lines 71-78 and 95-100: a worker thread takes the next submitted call,
\* which looks at the file on disk and sends HEAD if there is one and GET
\* if there is none
BeginDownload ==
    /\ wpc = "pool"
    /\ FreeWorker(Cardinality(Running(job)), max_connections)
    /\ \E k \in DOMAIN dump_urls :
          LET lang_code == dump_urls[k] IN
          /\ job[lang_code].st = "queued"
          /\ \A n \in 1..(k - 1) : job[dump_urls[n]].st # "queued"
          /\ job' = [job EXCEPT
                        ![lang_code].st =
                            IF lang_code \in DOMAIN target_dir THEN "head"
                            ELSE "get"]
    /\ UNCHANGED <<languages_arg, max_connections, dry_run, target_dir, runs,
                   wpc, existing, to_download, checked, dump_urls,
                   managerVars, validateVars, extractVars, dispatchVars,
                   readerVars, finderVars>>

\* lines 78-100: the HEAD is answered or fails; when answered, a complete
\* file is skipped, a shorter one is resumed with a Range request in mode
\* 'ab', a longer one is fetched again; the GET is sent
HeadResponse ==
    /\ wpc = "pool"
    /\ \E lang_code \in DOMAIN job :
          /\ job[lang_code].st = "head"
          /\ \E head_answered \in BOOLEAN :
                LET local_size == target_dir[lang_code]
                    remote_size == RemoteSize(lang_code)
                IN  IF ~head_answered THEN Fails(lang_code)
                    ELSE /\ job' =
                              IF local_size = remote_size
                              THEN [job EXCEPT ![lang_code].st = "done"]
                              ELSE IF local_size < remote_size
                              THEN [job EXCEPT
                                       ![lang_code].st = "get",
                                       ![lang_code].mode = "ab",
                                       ![lang_code].resume_pos = local_size]
                              ELSE [job EXCEPT ![lang_code].st = "get"]
                         /\ UNCHANGED managerVars
    /\ UNCHANGED <<languages_arg, max_connections, dry_run, target_dir, runs,
                   wpc, existing, to_download, checked, dump_urls,
                   validateVars, extractVars, dispatchVars, readerVars,
                   finderVars>>

\* lines 99-113: the GET is answered or fails; when answered, with the rest
\* of the file from resume_pos on, the download is entered in
\* active_downloads under the lock
GetResponse ==
    /\ wpc = "pool"
    /\ \E lang_code \in DOMAIN job :
          /\ job[lang_code].st = "get"
          /\ \E answered \in BOOLEAN :
                IF ~answered
                THEN Fails(lang_code)
                ELSE LET resume_pos == job[lang_code].resume_pos
                         content_length == RemoteSize(lang_code) - resume_pos
                         total_size == content_length + resume_pos
                     IN  /\ job' = [job EXCEPT
                                       ![lang_code].st = "open",
                                       ![lang_code].downloaded = resume_pos,
                                       ![lang_code].total_size = total_size]
                         /\ active_downloads' =
                                DictSet(active_downloads, lang_code,
                                        [total_size |-> total_size,
                                         downloaded |-> resume_pos])
                         /\ UNCHANGED <<completed_downloads, failed_downloads,
                                        total_bytes_downloaded>>
    /\ UNCHANGED <<languages_arg, max_connections, dry_run, target_dir, runs,
                   wpc, existing, to_download, checked, dump_urls,
                   validateVars, extractVars, dispatchVars, readerVars,
                   finderVars>>

\* line 116: the file is opened after the lock was released; mode 'wb'
\* creates it or empties it, mode 'ab' leaves what it holds
OpenFile ==
    /\ wpc = "pool"
    /\ \E lang_code \in DOMAIN job :
          /\ job[lang_code].st = "open"
          /\ job' = [job EXCEPT ![lang_code].st = "writing"]
          /\ target_dir' =
                 IF job[lang_code].mode = "wb"
                 THEN DictSet(target_dir, lang_code, 0)
                 ELSE target_dir
    /\ UNCHANGED <<languages_arg, max_connections, dry_run, runs, wpc,
                   existing, to_download, checked, dump_urls, managerVars,
                   validateVars, extractVars, dispatchVars, readerVars,
                   finderVars>>

\* lines 117-120: one chunk is written to the file and added to the local
\* count
WriteChunk ==
    /\ wpc = "pool"
    /\ \E lang_code \in DOMAIN job :
          /\ job[lang_code].st = "writing"
          /\ job[lang_code].downloaded < job[lang_code].total_size
          /\ target_dir' = [target_dir EXCEPT ![lang_code] = @ + 1]
          /\ job' = [job EXCEPT ![lang_code].downloaded = @ + 1,
                                ![lang_code].st = "counting"]
    /\ UNCHANGED <<languages_arg, max_connections, dry_run, runs, wpc,
                   existing, to_download, checked, dump_urls, managerVars,
                   validateVars, extractVars, dispatchVars, readerVars,
                   finderVars>>

\* lines 122-124: with the lock, the chunk is added to the manager's counts
CountChunk ==
    /\ wpc = "pool"
    /\ \E lang_code \in DOMAIN job :
          /\ job[lang_code].st = "counting"
          /\ job' = [job EXCEPT ![lang_code].st = "writing"]
          /\ active_downloads' =
                 [active_downloads EXCEPT
                     ![lang_code].downloaded = job[lang_code].downloaded]
          /\ total_bytes_downloaded' = total_bytes_downloaded + 1
    /\ UNCHANGED <<languages_arg, max_connections, dry_run, target_dir, runs,
                   wpc, existing, to_download, checked, dump_urls,
                   completed_downloads, failed_downloads, validateVars,
                   extractVars, dispatchVars, readerVars,
                   finderVars>>

\* the connection breaks while the body is read: iter_content raises
StreamBreaks ==
    /\ wpc = "pool"
    /\ \E lang_code \in DOMAIN job :
          /\ job[lang_code].st = "writing"
          /\ job[lang_code].downloaded < job[lang_code].total_size
          /\ Fails(lang_code)
    /\ UNCHANGED <<languages_arg, max_connections, dry_run, target_dir, runs,
                   wpc, existing, to_download, checked, dump_urls,
                   validateVars, extractVars, dispatchVars, readerVars,
                   finderVars>>

\* lines 126-132: the body has ended
FinishDownload ==
    /\ wpc = "pool"
    /\ \E lang_code \in DOMAIN job :
          /\ job[lang_code].st = "writing"
          /\ job[lang_code].downloaded = job[lang_code].total_size
          /\ job' = [job EXCEPT ![lang_code].st = "done"]
          /\ active_downloads' = DictDel(active_downloads, lang_code)
          /\ completed_downloads' = Append(completed_downloads, lang_code)
    /\ UNCHANGED <<languages_arg, max_connections, dry_run, target_dir, runs,
                   wpc, existing, to_download, checked, dump_urls,
                   failed_downloads, total_bytes_downloaded, validateVars,
                   extractVars, dispatchVars, readerVars,
                   finderVars>>

\* lines 385-403: every future has a result, the executor shuts down
ReturnFromDownloads ==
    /\ wpc = "pool"
    /\ \A lang_code \in DOMAIN job : job[lang_code].st \in {"done", "failed"}
    /\ wpc' = "returned"
    /\ UNCHANGED <<languages_arg, max_connections, dry_run, target_dir, runs,
                   existing, to_download, checked, dump_urls, job,
                   managerVars, validateVars, extractVars, dispatchVars,
                   readerVars,
                   finderVars>>

\* the process is killed while it discovers or downloads
Kill ==
    /\ wpc \in {"discover", "pool"}
    /\ wpc' = "killed"
    /\ UNCHANGED <<languages_arg, max_connections, dry_run, target_dir, runs,
                   existing, to_download, checked, dump_urls, job,
                   managerVars, validateVars, extractVars, dispatchVars,
                   readerVars,
                   finderVars>>

\* the script is started again with the same arguments
NextRun ==
    /\ wpc \in {"returned", "killed"}
    /\ runs < MaxRuns
    /\ runs' = runs + 1
    /\ wpc' = "start"
    /\ existing' = {}
    /\ to_download' = <<>>
    /\ checked' = 0
    /\ dump_urls' = <<>>
    /\ job' = <<>>
    /\ active_downloads' = <<>>
    /\ completed_downloads' = <<>>
    /\ failed_downloads' = <<>>
    /\ total_bytes_downloaded' = 0
    /\ UNCHANGED <<languages_arg, max_connections, dry_run, target_dir,
                   validateVars, extractVars, dispatchVars, readerVars,
                   finderVars>>

NextDownload ==
    \/ StartRun
    \/ DiscoverUrl
    \/ SubmitAll
    \/ BeginDownload
    \/ HeadResponse
    \/ GetResponse
    \/ OpenFile
    \/ WriteChunk
    \/ CountChunk
    \/ StreamBreaks
    \/ FinishDownload
    \/ ReturnFromDownloads
    \/ Kill
    \/ NextRun

SpecDownload == InitDownload /\ [][NextDownload]_vars

(***************************************************************************)
(* find_available_dump: the search for the dump URL of one language.       *)
(* Every request ends, with a response or with an exception (each has a    *)
(* timeout), and every sleep ends.                                         *)
(***************************************************************************)

MaxDates == 6

\* "retry_count < 3" of line 302
MaxRetries == 3

\* the 60 of line 251
DelayCap == 60

\* dates[:5] of line 271
DatesChecked == 5

\* the values of request_delay the runs are given
RequestDelays == {0, 2, 8}

\* how a request of the index page can end: with a response that
\* raise_for_status accepts, with an HTTPError of status 503 or 404, or
\* with another exception
IndexOutcomes == {"200", "503", "404", "ConnectionError"}

\* the dates an index page may name (YYYYMMDD strings in their order)
DateValues == {1, 2, 3}

\* the lists re.findall of line 263 can give: the dates in the order the
\* index page names them, a date as often as the page names it
DateLists == UNION {[1..n -> DateValues] : n \in 0..MaxDates}

RECURSIVE SortedLatestFirst(_)
\* sorted(dates, reverse=True) of line 264
SortedLatestFirst(found) ==
    IF found = <<>> THEN <<>>
    ELSE LET latest == CHOOSE d \in {found[k] : k \in DOMAIN found} :
                           \A k \in DOMAIN found : found[k] <= d
             first == CHOOSE k \in DOMAIN found : found[k] = latest
         IN  <<latest>>
             \o SortedLatestFirst([k \in 1..(Len(found) - 1) |->
                                      IF k < first THEN found[k]
                                      ELSE found[k + 1]])

\* how the look at one date can go: the GET of the date's page raises, or
\* the page does not list the file, or it lists it; the page says
\* in-progress or not; the HEAD of the file, if it is sent, is answered
\* with 200 or with another status, or raises
DateOutcomes ==
    [page : {"raises", "not_listed", "listed"},
     in_progress : BOOLEAN,
     head : {"200", "404", "raises"}]

\* line 251: the delay before the request of a retry
RetryDelay(delay, count) == Min(DelayCap, delay * 2^count)

\* lines 250-255: what time.sleep is called with before the request
SleepTime(delay, count) ==
    IF count > 0 THEN RetryDelay(delay, count) ELSE delay

\* a handler that calls again after any HTTPError
MayRetry_any_http_error(outcome, count) ==
    outcome \in {"503", "404"} /\ count < MaxRetries

\* line 302: whether the handler of HTTPError calls find_available_dump
\* again
MayRetry(outcome, count) == outcome = "503" /\ count < MaxRetries

\* line 284: whether the HEAD of the file is sent
HeadSent(outcome, date, newest) ==
    /\ outcome.page = "listed"
    /\ ~outcome.in_progress \/ date # newest

\* lines 274-292: whether the look at a date returns the file's URL
DateGivesUrl(outcome, date, newest) ==
    HeadSent(outcome, date, newest) /\ outcome.head = "200"

InitFind ==
    /\ request_delay \in RequestDelays
    /\ retry_count = 0
    /\ fpc = "sleep"
    /\ slept = <<>>
    /\ responses = <<>>
    /\ dates = <<>>
    /\ date_pos = 0
    /\ file_url = "None"
    /\ IdleValidate
    /\ IdleExtract
    /\ IdleDispatch
    /\ IdleReader
    /\ IdleDownload

\* lines 249-255
Sleep ==
    /\ fpc = "sleep"
    /\ slept' = Append(slept, SleepTime(request_delay, retry_count))
    /\ fpc' = "index"
    /\ UNCHANGED <<retry_count, request_delay, responses, dates, date_pos,
                   file_url, validateVars, extractVars, dispatchVars,
                   readerVars, downloadVars>>

\* lines 257-268 and 301-310: the index page is asked for; an HTTPError 503
\* calls find_available_dump again while retry_count < 3, any other
\* exception returns None, and so does a page without dates
IndexRequest ==
    /\ fpc = "index"
    /\ \E outcome \in IndexOutcomes, found \in DateLists :
          /\ responses' = Append(responses, outcome)
          /\ IF outcome = "200"
             THEN /\ dates' = SortedLatestFirst(found)
                  /\ fpc' = IF found = <<>> THEN "returned" ELSE "dates"
                  /\ UNCHANGED retry_count
             ELSE /\ found = <<>>
                  /\ UNCHANGED dates
                  /\ IF MayRetry(outcome, retry_count)
                     THEN /\ retry_count' = retry_count + 1
                          /\ fpc' = "sleep"
                     ELSE /\ fpc' = "returned"
                          /\ UNCHANGED retry_count
    /\ UNCHANGED <<request_delay, slept, date_pos, file_url, validateVars,
                   extractVars, dispatchVars, readerVars, downloadVars>>

\* lines 271-296: one turn of the loop over the five latest dates
CheckDate ==
    /\ fpc = "dates" /\ date_pos < Min(Len(dates), DatesChecked)
    /\ \E outcome \in DateOutcomes :
          IF DateGivesUrl(outcome, dates[date_pos + 1], dates[1])
          THEN /\ file_url' = "url"
               /\ fpc' = "returned"
               /\ UNCHANGED date_pos
          ELSE /\ date_pos' = date_pos + 1
               /\ UNCHANGED <<file_url, fpc>>
    /\ UNCHANGED <<retry_count, request_delay, slept, responses, dates,
                   validateVars, extractVars, dispatchVars, readerVars,
                   downloadVars>>

\* lines 298-299: no date gave a complete dump
NoCompleteDump ==
    /\ fpc = "dates" /\ date_pos = Min(Len(dates), DatesChecked)
    /\ fpc' = "returned"
    /\ UNCHANGED <<retry_count, request_delay, slept, responses, dates,
                   date_pos, file_url, validateVars, extractVars,
                   dispatchVars, readerVars, downloadVars>>

NextFind == Sleep \/ IndexRequest \/ CheckDate \/ NoCompleteDump

SpecFind == InitFind /\ [][NextFind]_vars

\* every sleep and every request ends
FairSpecFind == SpecFind /\ WF_vars(NextFind)

(***************************************************************************)
(* Claims about the validators (checked under SpecValidate).               *)
(***************************************************************************)

\* the digit value of a decimal digit, as the claims use it
DigitValue(c) == IntOf(c)

\* the checksum of C1, written out: 10 d0 + 9 d1 + ... + 2 d8 + check
Checksum10(c) ==
    10 * DigitValue(c[1]) + 9 * DigitValue(c[2]) + 8 * DigitValue(c[3])
    + 7 * DigitValue(c[4]) + 6 * DigitValue(c[5]) + 5 * DigitValue(c[6])
    + 4 * DigitValue(c[7]) + 3 * DigitValue(c[8]) + 2 * DigitValue(c[9])
    + (IF c[10] = "X" THEN 10 ELSE DigitValue(c[10]))

\* the right-hand side of C1
WellFormedValid10(s) ==
    LET c == Upper(StripSeparators(s)) IN
    /\ Len(c) = 10
    /\ \A i \in 1..9 : IsDecimal(c[i])
    /\ IsDecimal(c[10]) \/ c[10] = "X"
    /\ Checksum10(c) % 11 = 0

\* C1: validate_isbn10(s) returns true exactly when s, stripped of hyphens
\* and whitespace and upper-cased, is 9 digits and a digit or X whose
\* weighted sum is divisible by 11, and returns false for every other input.
C1_Validate10Contract ==
    vpc = "done" =>
        r10 = (IF WellFormedValid10(isbn) THEN "True" ELSE "False")

\* C1, the part the code keeps: whenever validate_isbn10 returns, it returns
\* what the claim says.
C1_Validate10WhenItReturns ==
    (vpc = "done" /\ r10 # "ValueError") =>
        r10 = (IF WellFormedValid10(isbn) THEN "True" ELSE "False")

\* the sum S of C2: weight 1 at even indices, 3 at odd indices
Checksum13(c) ==
    DigitValue(c[1]) + 3 * DigitValue(c[2]) + DigitValue(c[3])
    + 3 * DigitValue(c[4]) + DigitValue(c[5]) + 3 * DigitValue(c[6])
    + DigitValue(c[7]) + 3 * DigitValue(c[8]) + DigitValue(c[9])
    + 3 * DigitValue(c[10]) + DigitValue(c[11]) + 3 * DigitValue(c[12])

\* the right-hand side of C2
WellFormedValid13(s) ==
    LET c == StripSeparators(s) IN
    /\ Len(c) = 13
    /\ \A i \in 1..13 : IsDecimal(c[i])
    /\ DigitValue(c[13]) = (10 - (Checksum13(c) % 10)) % 10

\* C2: validate_isbn13(s) returns true exactly when s, stripped of hyphens
\* and whitespace, is 13 digits whose 13th equals (10 - (S mod 10)) mod 10,
\* and returns false for every other input.
C2_Validate13Contract ==
    vpc = "done" =>
        r13 = (IF WellFormedValid13(isbn) THEN "True" ELSE "False")

\* C2, the part the code keeps: whenever validate_isbn13 returns, it returns
\* what the claim says.
C2_Validate13WhenItReturns ==
    (vpc = "done" /\ r13 # "ValueError") =>
        r13 = (IF WellFormedValid13(isbn) THEN "True" ELSE "False")

\* the admissible check characters of an ISBN-10
CheckChars10 == AsciiDigit \cup {"X"}

\* whether the first n characters of c are decimal digits
DigitPrefix(c, n) == Len(c) >= n /\ \A i \in 1..n : IsDecimal(c[i])

\* C3: every 9-digit prefix has exactly one check character in 0..9, X that
\* validate_isbn10 accepts; so a valid ISBN-10 (its check character one of
\* 0..9, X) with only its check character changed to another admissible one
\* is invalid.
C3_UniqueCheck10 ==
    LET c == Upper(StripSeparators(isbn))
        p == SubSeq(c, 1, 9)
    IN  (vpc = "done" /\ DigitPrefix(c, 9)) =>
            /\ Cardinality({k \in CheckChars10 :
                               validate_isbn10(p \o <<k>>) = "True"}) = 1
            /\ (r10 = "True" /\ c[10] \in CheckChars10) =>
                   \A k \in CheckChars10 \ {c[10]} :
                       validate_isbn10(p \o <<k>>) = "False"

\* C3's case: a valid ISBN-10 ending in X whose prefix an edit has changed
C3_Witness ==
    /\ vpc = "done" /\ r10 = "True" /\ edits = 1
    /\ norm[10] = "X"
    /\ SubSeq(norm, 1, 9) # <<"1", "5", "5", "8", "6", "0", "8", "3", "2">>

\* C4: every 12-digit prefix has exactly one check digit in 0..9 that
\* validate_isbn13 accepts; so a valid ISBN-13 (its 13th digit one of 0..9)
\* with only its 13th digit changed is invalid.
C4_UniqueCheck13 ==
    LET c == StripSeparators(isbn)
        p == SubSeq(c, 1, 12)
    IN  (vpc = "done" /\ DigitPrefix(c, 12)) =>
            /\ Cardinality({k \in AsciiDigit :
                               validate_isbn13(p \o <<k>>) = "True"}) = 1
            /\ (r13 = "True" /\ c[13] \in AsciiDigit) =>
                   \A k \in AsciiDigit \ {c[13]} :
                       validate_isbn13(p \o <<k>>) = "False"

\* C4's case: a valid ISBN-13 whose check digit is 0 (the sum of the first
\* twelve is a multiple of 10)
C4_Witness ==
    /\ vpc = "done" /\ r13 = "True" /\ edits = 1
    /\ norm[13] = "0"

\* C5: normalization is idempotent, and each validator answers the same on
\* s and on normalize(s).
C5_NormalizeIdempotent ==
    vpc = "done" =>
        /\ normalize_isbn(norm) = norm
        /\ validate_isbn10(norm) = r10
        /\ validate_isbn13(norm) = r13

\* C5's case: an argument that normalization shortens and upper-cases and
\* that validates
C5_Witness ==
    /\ vpc = "done" /\ r10 = "True"
    /\ Len(norm) < Len(isbn)
    /\ \E i \in 1..Len(isbn) : isbn[i] = "x"

(***************************************************************************)
(* Claims about the extractor (checked under SpecExtract).                 *)
(***************************************************************************)

\* the token "isbn", in any letter case, at position j of t
MarkerAt(t, j) ==
    /\ j + 4 <= Len(t)
    /\ t[j + 1] \in {"I", "i"} /\ t[j + 2] \in {"S", "s"}
    /\ t[j + 3] \in {"B", "b"} /\ t[j + 4] \in {"N", "n"}

\* the token lies wholly before position start and ends at most d
\* characters before it
MarkerWithin(t, start, d) ==
    \E j \in 0..(start - 4) : MarkerAt(t, j) /\ start - (j + 4) <= d

\* the matches of the pattern in t that are identifier-shaped (t is the
\* text the matches are found in, the article without its URLs)
ShapedMatches(t) ==
    LET ms == FindIterFrom(t, 0) IN
    {ms[k] : k \in {i \in 1..Len(ms) :
        ShapeOk(Upper(StripSeparators(Slice(t, ms[i].start, ms[i].end))))}}

\* whether the returned list holds the match m
Kept(m) ==
    \E k \in 1..Len(potential_isbns) :
        potential_isbns[k].start = m.start /\ potential_isbns[k].end = m.end

\* C6: find_potential_isbns keeps an identifier-shaped match exactly when
\* the token "isbn", in any letter case, lies wholly before the match start
\* and ends at most proximity characters before it.
C6_ProximityRule ==
    xpc = "done" =>
        LET t == WithoutUrls(article) IN
        \A m \in ShapedMatches(t) :
            Kept(m) <=> MarkerWithin(t, m.start, arg_proximity)

\* whether str.lower() keeps the length of every character of
\* t[start - d - 4 : start], the text has_isbn_nearby searches
LowerKeepsLength(t, start, d) ==
    \A k \in (Max(0, start - d - 4) + 1)..start : Len(LowerChar(t[k])) = 1

\* C6, the part the code keeps: the rule holds for every match whose search
\* text str.lower() does not lengthen, and no match without the marker in
\* reach is ever kept.
C6_ProximityRuleWhereLowerKeepsLength ==
    xpc = "done" =>
        LET t == WithoutUrls(article) IN
        \A m \in ShapedMatches(t) :
            /\ Kept(m) => MarkerWithin(t, m.start, arg_proximity)
            /\ LowerKeepsLength(t, m.start, arg_proximity) =>
                   (Kept(m) <=> MarkerWithin(t, m.start, arg_proximity))

\* C7: every returned candidate, stripped of hyphens and whitespace and
\* upper-cased, is 9 digits and a digit or X, or 13 digits.
C7_CandidateShape ==
    xpc = "done" =>
        \A k \in 1..Len(potential_isbns) :
            LET n == Upper(StripSeparators(potential_isbns[k].isbn)) IN
            \/ /\ Len(n) = 10
               /\ \A i \in 1..9 : IsDecimal(n[i])
               /\ IsDecimal(n[10]) \/ n[10] = "X"
            \/ /\ Len(n) = 13
               /\ \A i \in 1..13 : IsDecimal(n[i])

\* C7's case: a candidate written with hyphens and a lower-case x is
\* returned from a text that also holds a match of another length
C7_Witness ==
    /\ xpc = "done"
    /\ \E k \in 1..Len(potential_isbns) :
          LET c == potential_isbns[k].isbn IN
          c[Len(c)] = "x" /\ \E i \in 1..Len(c) : c[i] = "-"
    /\ LET t == WithoutUrls(article) IN
       Len(FindIterFrom(t, 0)) > Cardinality(ShapedMatches(t))

\* supporting C21, the figures as stated: the raw span of every candidate is
\* 9 to 17 characters long, holds only digits, hyphens and spaces before a
\* last character that is a digit or X or x, starts with a digit, and is
\* not immediately preceded by a digit in the scanned text.  The pattern of
\* line 123 is one digit, 8 to 16 characters and a last character, which
\* makes 10 to 18.
C21_SpanOf9To17 ==
    xpc = "done" =>
        LET t == WithoutUrls(article) IN
        \A k \in 1..Len(potential_isbns) :
            LET c == potential_isbns[k] IN
            /\ Len(c.isbn) \in 9..17
            /\ \A i \in 1..(Len(c.isbn) - 1) : IsBodyChar(c.isbn[i])
            /\ IsDecimal(c.isbn[1])
            /\ IsLastChar(c.isbn[Len(c.isbn)])
            /\ c.start > 0 => ~IsDecimal(t[c.start])

\* C21: the raw span of every candidate (10 to 18 characters, as the
\* pattern counts them) holds only digits, hyphens and whitespace before a
\* last character that is a digit or X or x, starts with a digit, and is
\* not immediately preceded by a digit in the scanned text: no candidate
\* starts in the middle of a number.
C21_SpanNotAfterDigit ==
    xpc = "done" =>
        LET t == WithoutUrls(article) IN
        \A k \in 1..Len(potential_isbns) :
            LET c == potential_isbns[k] IN
            /\ c.isbn = Slice(t, c.start, c.end)
            /\ Len(c.isbn) \in 10..18
            /\ \A i \in 1..(Len(c.isbn) - 1) : IsBodyChar(c.isbn[i])
            /\ IsDecimal(c.isbn[1])
            /\ IsLastChar(c.isbn[Len(c.isbn)])
            /\ c.start > 0 => ~IsDecimal(t[c.start])

\* supporting C21, the part the code keeps: every clause but the last
\* holds of every candidate, and no candidate is immediately preceded by
\* one of the digits 0 to 9, the only digits the lookbehind (?<![0-9])
\* looks for.
C21_SpanOf10To18 ==
    xpc = "done" =>
        LET t == WithoutUrls(article) IN
        \A k \in 1..Len(potential_isbns) :
            LET c == potential_isbns[k] IN
            /\ c.isbn = Slice(t, c.start, c.end)
            /\ Len(c.isbn) \in 10..18
            /\ \A i \in 1..(Len(c.isbn) - 1) : IsBodyChar(c.isbn[i])
            /\ IsDecimal(c.isbn[1])
            /\ IsLastChar(c.isbn[Len(c.isbn)])
            /\ c.start > 0 => t[c.start] \notin AsciiDigit

\* C21's case: a candidate is returned that directly follows a decimal
\* digit other than 0 to 9, in the middle of a number as \d reads it
C21_Witness ==
    /\ xpc = "done"
    /\ LET t == WithoutUrls(article) IN
       \E k \in 1..Len(potential_isbns) :
           LET c == potential_isbns[k] IN
           /\ Len(c.isbn) = 18
           /\ c.start > 0
           /\ IsDecimal(t[c.start])

\* supporting C21: candidates of the least length, 10, are returned too
C21_ShortestSpan ==
    /\ xpc = "done"
    /\ \E k \in 1..Len(potential_isbns) : Len(potential_isbns[k].isbn) = 10

\* s is a contiguous substring of t
Occurs(s, t) == \E p \in 0..(Len(t) - Len(s)) : Slice(t, p, p + Len(s)) = s

\* s lies in the context with at most n characters before and after it
OccursWithMargin(s, context, n) ==
    \E p \in 0..(Len(context) - Len(s)) :
        /\ Slice(context, p, p + Len(s)) = s
        /\ p <= n
        /\ Len(context) - (p + Len(s)) <= n

\* C30: for every candidate returned by find_potential_isbns, the stored
\* raw identifier text is a contiguous substring of the original article
\* text, the stored context contains that raw text, and the context
\* extends at most context_chars characters before and after it; so URL
\* removal never fuses digits from both sides of a URL into one candidate.
C30_RawTextFromOriginal ==
    xpc = "done" =>
        \A k \in 1..Len(potential_isbns) :
            /\ Occurs(potential_isbns[k].isbn, article)
            /\ OccursWithMargin(potential_isbns[k].isbn,
                                potential_isbns[k].context, arg_context)

\* what the code does: the raw text is cut from the text in which every URL
\* was replaced by one blank, and the context holds it with at most
\* context_chars characters on each side
C30_RawTextFromTextWithoutUrls ==
    xpc = "done" =>
        \A k \in 1..Len(potential_isbns) :
            /\ potential_isbns[k].isbn
                   = Slice(WithoutUrls(article), potential_isbns[k].start,
                           potential_isbns[k].end)
            /\ OccursWithMargin(potential_isbns[k].isbn,
                                potential_isbns[k].context, arg_context)

\* a returned candidate holds the blank that replaced a URL, with digits of
\* the original text from both sides of the URL, and is no substring of the
\* original text
C30_FusedAcrossUrl ==
    /\ xpc = "done"
    /\ \E k \in 1..Len(potential_isbns) :
          LET c == potential_isbns[k]
              origin == UrlOrigins(article)
          IN  /\ ~Occurs(c.isbn, article)
              /\ \E q \in (c.start + 1)..(c.end - 2) :
                    /\ origin[q + 1] = -1
                    /\ IsDecimal(c.isbn[1])
                    /\ IsDecimal(c.isbn[Len(c.isbn)])

\* position q of t lies in a URL-shaped substring: a run of non-delimiter
\* characters that reaches q from an "http://" or "https://" at or before q
InUrl(t, q) ==
    \E p \in 0..q :
        /\ \/ StartsWith(t, p, <<"h", "t", "t", "p", ":", "/", "/">>)
           \/ StartsWith(t, p, <<"h", "t", "t", "p", "s", ":", "/", "/">>)
        /\ \A k \in p..q : IsUrlChar(t[k + 1])

\* C8: no character that was part of a URL of the input is part of a
\* returned candidate.
C8_NoUrlCharacterInCandidate ==
    xpc = "done" =>
        LET origin == UrlOrigins(article) IN
        \A k \in 1..Len(potential_isbns) :
            \A q \in potential_isbns[k].start..(potential_isbns[k].end - 1) :
                origin[q + 1] # -1 => ~InUrl(article, origin[q + 1])

\* C8's case: the marker stands right before a URL that ends in an
\* identifier, and a candidate after the URL is returned
C8_Witness ==
    /\ xpc = "done"
    /\ potential_isbns # <<>>
    /\ \E p \in 0..(Len(article) - 1) :
          /\ StartsWith(article, p, <<"h", "t", "t", "p", ":", "/", "/">>)
          /\ MarkerWithin(article, p, 1)
          /\ \E q \in p..(Len(article) - 1) :
                 InUrl(article, q) /\ IsDecimal(article[q + 1])

(***************************************************************************)
(* Claims about the dispatcher                                             *)
(***************************************************************************)

\* the languages of the dump files
Languages == {get_language_from_dump_path(p) : p \in AllPaths}

\* processing the file raises
Failed(p) == Processed[p].raised

\* the ArticleResults of a file that processes without an exception
FileResults(p) == Processed[p].results

FileArticles(p) == Len(DumpAt(p).pages)

FileSeconds(p) == DumpAt(p).secs

\* the candidates, the valid and the invalid candidates of ArticleResults
CountTotal(results) == Sum([k \in DOMAIN results |-> results[k].total_found])

CountValid(results) ==
    Sum([k \in DOMAIN results |-> Len(results[k].valid_isbns)])

CountInvalid(results) ==
    Sum([k \in DOMAIN results |-> Len(results[k].invalid_isbns)])

\* the ArticleResults of one language
OfLanguage(results, L) == SelectSeq(results, LAMBDA r : r.language = L)

FilesOfLanguage(S, L) == {p \in S : get_language_from_dump_path(p) = L}

\* a per-language total, 0 for a language without an entry
Entry(d, L) == IF L \in DOMAIN d THEN d[L] ELSE 0

\* the files the loop has merged so far
MergedFiles == {dump_files[k] : k \in 1..idx} \ {p \in AllPaths : Failed(p)}

\* the counts of the aggregates are the sums over the set S of files
CountsAreSumsOver(S) ==
    /\ total_articles_processed = Sum([p \in S |-> FileArticles(p)])
    /\ CountTotal(all_results) = Sum([p \in S |-> CountTotal(FileResults(p))])
    /\ CountValid(all_results) = Sum([p \in S |-> CountValid(FileResults(p))])
    /\ CountInvalid(all_results)
           = Sum([p \in S |-> CountInvalid(FileResults(p))])
    /\ \A L \in Languages :
          LET SL == FilesOfLanguage(S, L)
              results == OfLanguage(all_results, L)
          IN  /\ Entry(language_article_counts, L)
                     = Sum([p \in SL |-> FileArticles(p)])
              /\ CountTotal(results)
                     = Sum([p \in SL |-> CountTotal(FileResults(p))])
              /\ CountValid(results)
                     = Sum([p \in SL |-> CountValid(FileResults(p))])
              /\ CountInvalid(results)
                     = Sum([p \in SL |-> CountInvalid(FileResults(p))])

\* C9: the merge is order-independent.  Whatever order glob lists the
\* files in and whatever order the worker tasks complete in, at every turn
\* of the merging loop and when process_all_dumps has returned,
\* total_articles_processed, the per-language article counts and the
\* total, valid and invalid candidate counts, overall and per language,
\* are the sums over the set of files merged, which depend on no order.
C9_MergeOrderIndependent ==
    dpc \in {"sequential", "merge", "done"} => CountsAreSumsOver(MergedFiles)

\* C9 witness: a parallel run has returned in which a file later in the
\* list completed before an earlier file of the same language, and the
\* language's article count is the sum of both files' articles.
C9_Witness ==
    /\ dpc = "done" /\ workers > 1
    /\ \E i, j \in 1..Len(completed) :
          /\ i < j
          /\ StrLess(completed[j], completed[i])
          /\ get_language_from_dump_path(completed[i])
                 = get_language_from_dump_path(completed[j])
          /\ FileArticles(completed[i]) > 0
          /\ FileArticles(completed[j]) > 0
          /\ CountTotal(FileResults(completed[i])) > 0
          /\ CountTotal(FileResults(completed[j])) > 0
          /\ Entry(language_article_counts,
                   get_language_from_dump_path(completed[i]))
                 >= FileArticles(completed[i]) + FileArticles(completed[j])

RECURSIVE ResultsInOrder(_)
\* the ArticleResults of the files of a list that process without an
\* exception, in the order of the list
ResultsInOrder(files) ==
    IF files = <<>> THEN <<>>
    ELSE (IF Failed(Head(files)) THEN <<>> ELSE FileResults(Head(files)))
         \o ResultsInOrder(Tail(files))

\* the files of the directory that process without an exception
Healthy == {p \in directory : ~Failed(p)}

\* the run was not left by an exception, and once it has returned the failed
\* files have added nothing and every other file is merged
FailuresIsolated ==
    /\ dpc # "raised"
    /\ dpc = "done" =>
          /\ all_results = ResultsInOrder(dump_files)
          /\ total_articles_processed = Sum([p \in Healthy |-> FileArticles(p)])
          /\ DOMAIN language_times
                 = {get_language_from_dump_path(p) : p \in Healthy}
          /\ DOMAIN language_article_counts
                 = {get_language_from_dump_path(p) : p \in Healthy}
          /\ \A L \in DOMAIN language_times :
                language_times[L]
                    = Sum([p \in FilesOfLanguage(Healthy, L) |->
                              FileSeconds(p)])
          /\ \A L \in DOMAIN language_article_counts :
                language_article_counts[L]
                    = Sum([p \in FilesOfLanguage(Healthy, L) |->
                              FileArticles(p)])

\* C10: for every effective pool size, 1 included, when processing a dump
\* file raises, process_all_dumps still returns normally, the failed file
\* adds nothing to all_results, total_articles_processed, language_times
\* or language_article_counts, and every other file's results are merged.
C10_FailureIsolated ==
    (\E p \in directory : Failed(p)) => FailuresIsolated

\* what the code does keep: with an effective pool size above 1 the
\* failure of a file is isolated when the exceptions have a message
C10_FailureIsolatedInPool ==
    (/\ \E p \in directory : Failed(p)
     /\ \A p \in directory : Failed(p) => Processed[p].message # ""
     /\ dpc # "start"
     /\ workers > 1)
        => FailuresIsolated

\* with an effective pool size of 1 the exception of the first failing file
\* leaves process_all_dumps, after the files before it were merged
C10_SequentialRunAborts ==
    (dpc = "raised") =>
        /\ workers = 1
        /\ Failed(dump_files[idx + 1])
        /\ \A k \in 1..idx : ~Failed(dump_files[k])

\* the dump files none of whose articles holds a candidate
ZeroCandidateFiles ==
    {p \in AllPaths :
        /\ ~Failed(p)
        /\ \A k \in 1..Len(DumpAt(p).pages) :
              find_potential_isbns(DumpAt(p).pages[k].text, DefaultContext,
                                   DefaultProximity) = <<>>}

\* a turn of a merging loop takes the file at position idx + 1
MergesNext(p) ==
    /\ dpc \in {"sequential", "merge"}
    /\ idx < Len(dump_files)
    /\ dump_files[idx + 1] = p
    /\ idx' = idx + 1

\* C11: a dump file whose articles hold no candidate at all still adds its
\* number of processed articles to total_articles_processed and to its
\* language's article count, and adds no ArticleResult to all_results.
C11_ZeroCandidateDumpCounted ==
    [][\A p \in ZeroCandidateFiles :
          MergesNext(p) =>
              /\ total_articles_processed'
                     = total_articles_processed + Len(DumpAt(p).pages)
              /\ get_language_from_dump_path(p)
                     \in DOMAIN language_article_counts'
              /\ Entry(language_article_counts',
                       get_language_from_dump_path(p))
                     = Entry(language_article_counts,
                             get_language_from_dump_path(p))
                       + Len(DumpAt(p).pages)
              /\ all_results' = all_results]_vars

\* C11 witness: a run over a directory with a zero-candidate file of two
\* articles has returned; its language is counted with both articles and no
\* ArticleResult of that language exists.
C11_Witness ==
    /\ dpc = "done"
    /\ \E p \in directory \cap ZeroCandidateFiles :
          /\ Len(DumpAt(p).pages) = 2
          /\ Entry(language_article_counts, get_language_from_dump_path(p))
                 = 2
          /\ total_articles_processed >= 2
          /\ OfLanguage(all_results,
                        get_language_from_dump_path(p)) = <<>>

(***************************************************************************)
(* Claims about main() and the report                                      *)
(***************************************************************************)

\* main() has ended after a run that processed dump files without finding
\* any candidate
ZeroCandidateRunEnded ==
    /\ mpc # "call"
    /\ dpc = "done"
    /\ dump_files # <<>>
    /\ CountTotal(all_results) = 0

\* C12: for a run in which dump files were processed but the total number
\* of candidates is zero, a report is produced whose pass rate is 0, overall
\* and per language, with no division error and no missing report.
C12_ZeroCandidateRunReported ==
    ZeroCandidateRunEnded =>
        /\ report.written
        /\ report.pass_rate = 0
        /\ \A lang \in DOMAIN report.language_breakdown :
              report.language_breakdown[lang].pass_rate = 0

\* what the code does instead: such a run ends at line 646 with the notice
\* "No articles found to process." and without a report or a CSV file
C12_ZeroCandidateRunUnreported ==
    ZeroCandidateRunEnded =>
        /\ mpc = "no_articles"
        /\ ~report.written
        /\ ~csv.written
        /\ printed = <<"No articles found to process.">>

\* a report is only written for a run with candidates, so neither guard
\* "if total_isbns > 0" nor "if lang_total > 0" ever takes its 0 branch
C12_ReportsHaveCandidates ==
    report.written =>
        /\ report.total_isbns > 0
        /\ \A lang \in DOMAIN report.language_breakdown :
              report.language_breakdown[lang].total_isbns > 0

\* the distinct normalized forms of candidates: hyphens and whitespace
\* stripped, upper-cased
NormalizedForms(candidates) ==
    {normalize_isbn(candidates[k].isbn) : k \in DOMAIN candidates}

\* the distinct forms of candidates with hyphens and whitespace stripped and
\* the letter case kept
SeparatorFreeForms(candidates) ==
    {StripSeparators(candidates[k].isbn) : k \in DOMAIN candidates}

\* the unique counts of the report, overall and per language, are the
\* numbers of the forms that Forms gives
UniqueCountsAre(Forms(_)) ==
    /\ report.unique_valid
           = Cardinality(Forms(CandidatesIn(all_results, "valid_isbns")))
    /\ report.unique_invalid
           = Cardinality(Forms(CandidatesIn(all_results, "invalid_isbns")))
    /\ \A lang \in DOMAIN report.language_breakdown :
          /\ report.language_breakdown[lang].unique_valid
                 = Cardinality(Forms(CandidatesIn(
                       OfLanguage(all_results, lang), "valid_isbns")))
          /\ report.language_breakdown[lang].unique_invalid
                 = Cardinality(Forms(CandidatesIn(
                       OfLanguage(all_results, lang), "invalid_isbns")))

\* C13: the report's unique valid and unique invalid counts, overall and per
\* language, equal the number of distinct normalized forms (hyphens and
\* spaces stripped, upper-cased): candidates that differ only in
\* hyphenation, spacing or the case of a trailing x/X are counted once.
C13_UniqueCountsByNormalizedForm ==
    report.written => UniqueCountsAre(NormalizedForms)

\* what the code does keep: the counts are those of the forms with hyphens
\* and whitespace stripped, compared with their letter case
C13_UniqueCountsBySeparatorFreeForm ==
    report.written => UniqueCountsAre(SeparatorFreeForms)

\* C14: when the dumps directory holds no matching dump file, the run halts
\* early: process_all_dumps returns at line 379 with the notice that no
\* dump file was found and with the explicit empty result (empty lists and
\* dicts, zero articles), no task is ever started, nothing is aggregated,
\* and main() ends with its own notice without writing a report.
C14_EmptyDirectoryHaltsEarly ==
    (directory = {} /\ dpc # "start") =>
        /\ dpc = "empty"
        /\ dump_files = <<>>
        /\ task = <<>> /\ pool_results = <<>> /\ completed = <<>>
        /\ idx = 0
        /\ all_results = <<>>
        /\ language_times = <<>>
        /\ total_articles_processed = 0
        /\ language_article_counts = <<>>
        /\ printed[1] = "No .bz2 dump files found"
        /\ mpc # "call" =>
              /\ mpc = "no_articles"
              /\ printed = <<"No .bz2 dump files found",
                             "No articles found to process.">>
              /\ ~report.written /\ ~csv.written

\* C14 witness: main() has ended for an empty directory, whatever pool size
\* was asked for, with both notices printed.
C14_Witness ==
    /\ directory = {}
    /\ workers_arg = MaxWorkers /\ cpus = MaxCpus
    /\ dpc = "empty"
    /\ mpc = "no_articles"
    /\ Len(printed) = 2

\* the candidate has normalized length 10 or 13 and passes the checksum of
\* that format
PassesChecksum(s) ==
    \/ Len(StripSeparators(s)) = 10 /\ WellFormedValid10(s)
    \/ Len(StripSeparators(s)) = 13 /\ WellFormedValid13(s)

\* the candidate has normalized length 10 or 13, the characters of that
\* format, and fails its checksum
FailsChecksum(s) ==
    LET c == Upper(StripSeparators(s)) IN
    \/ /\ Len(c) = 10
       /\ \A i \in 1..9 : IsDecimal(c[i])
       /\ IsDecimal(c[10]) \/ c[10] = "X"
       /\ Checksum10(c) % 11 # 0
    \/ /\ Len(c) = 13
       /\ \A i \in 1..13 : IsDecimal(c[i])
       /\ DigitValue(c[13]) # (10 - (Checksum13(c) % 10)) % 10

\* the ArticleResults a run has produced so far: merged, or returned by a
\* worker
ProducedResults ==
    {all_results[k] : k \in DOMAIN all_results}
    \cup UNION {{pool_results[i].dump_results[k] :
                    k \in DOMAIN pool_results[i].dump_results} :
                i \in DOMAIN pool_results}

\* C15: every candidate that process_single_dump places in an invalid list
\* has normalized length 10 or 13 and fails the checksum of that format,
\* and every candidate of a valid list passes it; no row of the CSV file of
\* invalid identifiers carries the label 'Invalid (n digits)'.
C15_InvalidMeansChecksumFailure ==
    /\ \A r \in ProducedResults :
          /\ \A k \in DOMAIN r.invalid_isbns :
                FailsChecksum(r.invalid_isbns[k].isbn)
          /\ \A k \in DOMAIN r.valid_isbns :
                PassesChecksum(r.valid_isbns[k].isbn)
    /\ csv.written =>
          \A k \in DOMAIN csv.rows :
              csv.rows[k].format \in {<<"ISBN-10">>, <<"ISBN-13">>}

\* C15 witness: the CSV file of a run holds an invalid ISBN-10 and an
\* invalid ISBN-13, and the run also found valid candidates of both lengths.
C15_Witness ==
    /\ csv.written
    /\ \E i, j \in DOMAIN csv.rows :
          /\ csv.rows[i].format = <<"ISBN-10">>
          /\ csv.rows[j].format = <<"ISBN-13">>
    /\ report.written
    /\ report.isbn10_valid > 0
    /\ report.isbn13_valid > 0

\* on every text of the extractor's harness: each candidate returned has
\* normalized length 10 or 13, the validators do not raise on it, and its
\* classification is the checksum of its format
C15_CandidatesClassified ==
    xpc = "done" =>
        \A k \in DOMAIN potential_isbns :
            LET c == CandidateDict(potential_isbns[k]) IN
            /\ Len(StripSeparators(c.isbn)) \in {10, 13}
            /\ IsValid(c) \in {"True", "False"}
            /\ IsValid(c) = "True" <=> PassesChecksum(c.isbn)
            /\ IsValid(c) = "False" <=> FailsChecksum(c.isbn)

\* the <lang> of a file name of the form <lang>wiki-<rest>, as
\* get_existing_dumps reads it, and 'en' for a name not of that form
FileLanguage(name) ==
    LET ends == {n \in 1..Len(name) :
                    /\ \A k \in 1..n : IsCodeChar(name[k])
                    /\ StartsWith(name, n, <<"w", "i", "k", "i", "-">>)}
    IN  IF ends # {}
        THEN SubSeq(name, 1, CHOOSE n \in ends : \A m \in ends : m <= n)
        ELSE <<"e", "n">>

\* every ArticleResult a worker returned for a file, and every key of the
\* per-language aggregates, is a language Lang gives for a listed file
LanguagesFollow(Lang(_)) ==
    /\ \A i \in DOMAIN pool_results :
          \A k \in DOMAIN pool_results[i].dump_results :
              pool_results[i].dump_results[k].language
                  = Lang(pool_results[i].dump_path)
    /\ \A k \in DOMAIN all_results :
          \E p \in directory :
              /\ all_results[k].language = Lang(p)
              /\ \E n \in DOMAIN DumpAt(p).pages :
                    DumpAt(p).pages[n].title = all_results[k].title
    /\ DOMAIN language_article_counts \subseteq {Lang(p) : p \in directory}
    /\ DOMAIN language_times \subseteq {Lang(p) : p \in directory}

\* C16: for every dump file name <lang>wiki-<rest>, <lang> being lowercase
\* letters possibly with hyphens, get_language_from_dump_path returns
\* <lang>, for any other name it returns 'en', and every ArticleResult
\* produced from a dump file carries that file's language code.
C16_LanguageFromFileName ==
    dpc # "start" =>
        /\ \A p \in directory :
              get_language_from_dump_path(p) = FileLanguage(p)
        /\ LanguagesFollow(FileLanguage)

\* what the code does keep: a code of lowercase letters only is returned,
\* a name not of the form is 'en', and results carry the language that
\* get_language_from_dump_path gives for their file
C16_LetterCodesFromFileName ==
    dpc # "start" =>
        /\ \A p \in directory :
              (\A k \in 1..Len(FileLanguage(p)) :
                   IsLowerLetter(FileLanguage(p)[k]))
                  => get_language_from_dump_path(p) = FileLanguage(p)
        /\ LanguagesFollow(get_language_from_dump_path)

\* and a code with a hyphen is always replaced by the fallback
C16_HyphenCodesFallBack ==
    \A p \in directory :
        (\E k \in 1..Len(FileLanguage(p)) : FileLanguage(p)[k] = "-")
            => get_language_from_dump_path(p) = <<"e", "n">>

(***************************************************************************)
(* Claims about the reader                                                 *)
(***************************************************************************)

\* the page is in namespace 0, has no redirect element, and has a title and
\* a text
Eligible(page) ==
    /\ page.ns = << <<"0">> >>
    /\ ~page.redirect
    /\ page.title # <<>> /\ page.title # << <<>> >>
    /\ page.text_elem # <<>> /\ page.text_elem # << <<>> >>

RECURSIVE EligiblePairs(_)
\* the (title, text) pairs of the eligible pages of a document, in document
\* order
EligiblePairs(pages) ==
    IF pages = <<>> THEN <<>>
    ELSE (IF Eligible(Head(pages))
          THEN <<[title |-> Head(pages).title[1],
                  text |-> Head(pages).text_elem[1]]>>
          ELSE <<>>)
         \o EligiblePairs(Tail(pages))

\* C17: extract_articles_from_dump yields (title, text), in document order,
\* for exactly the pages that are in namespace 0, have no redirect element
\* and have a title and a text; every other page is skipped without raising;
\* and the sequence is finite: it never holds more pairs than the document
\* has pages.
C17_ReaderYieldsEligiblePages ==
    /\ yielded = EligiblePairs(SubSeq(raw, 1, rpos))
    /\ Len(yielded) <= Len(raw)
    /\ rpc = "exhausted" => yielded = EligiblePairs(raw)

\* C17 witness: the generator is exhausted after a document of a redirect
\* page of namespace 0 followed by an eligible page, which alone was
\* yielded.
C17_Witness ==
    /\ rpc = "exhausted"
    /\ Len(raw) = 2
    /\ ~Eligible(raw[1]) /\ raw[1].redirect /\ raw[1].ns = << <<"0">> >>
    /\ Eligible(raw[2])
    /\ yielded = <<[title |-> <<"T">>, text |-> raw[2].text_elem[1]]>>

\* the generator is exhausted after finitely many steps
C17_ReaderTerminates == <>(rpc = "exhausted")

(***************************************************************************)
(* Claims about process_single_dump                                        *)
(***************************************************************************)

\* per dump file, the candidates of each article the reader yields
CandidatesByArticle ==
    [p \in AllPaths |->
        [k \in DOMAIN DumpAt(p).pages |->
            find_potential_isbns(DumpAt(p).pages[k].text, DefaultContext,
                                 DefaultProximity)]]

\* per dump file, the articles with at least one candidate, in stream order
QualifyingArticles ==
    [p \in AllPaths |->
        SelectSeq([k \in DOMAIN DumpAt(p).pages |->
                      [title |-> DumpAt(p).pages[k].title,
                       found |-> Len(CandidatesByArticle[p][k])]],
                  LAMBDA a : a.found > 0)]

\* results is one ArticleResult per qualifying article of p, in stream order
OnePerQualifyingArticle(results, p) ==
    /\ Len(results) = Len(QualifyingArticles[p])
    /\ \A k \in DOMAIN results :
          /\ results[k].title = QualifyingArticles[p][k].title
          /\ results[k].total_found = QualifyingArticles[p][k].found
          /\ Len(results[k].valid_isbns) + Len(results[k].invalid_isbns)
                 = results[k].total_found
          /\ results[k].total_found >= 1

\* C18: process_single_dump returns one ArticleResult for each streamed
\* article with at least one candidate and none for the others, in stream
\* order, while its article count is the number of all articles the reader
\* yielded; so the ArticleResults never outnumber the articles.  Stated on
\* what each merging turn takes over from the call for its file, and on the
\* tuples the workers return.
C18_OneResultPerQualifyingArticle ==
    [][/\ \A p \in AllPaths :
             (MergesNext(p) /\ ~Failed(p)) =>
                 LET added == SubSeq(all_results', Len(all_results) + 1,
                                     Len(all_results'))
                     counted == total_articles_processed'
                                    - total_articles_processed
                 IN  /\ all_results' = all_results \o added
                     /\ OnePerQualifyingArticle(added, p)
                     /\ counted = Len(DumpAt(p).pages)
                     /\ Len(added) <= counted
       /\ \A i \in DOMAIN pool_results' :
             ~Failed(pool_results'[i].dump_path) =>
                 /\ OnePerQualifyingArticle(pool_results'[i].dump_results,
                                            pool_results'[i].dump_path)
                 /\ pool_results'[i].article_count
                        = Len(DumpAt(pool_results'[i].dump_path).pages)
                 /\ Len(pool_results'[i].dump_results)
                        <= pool_results'[i].article_count]_vars

\* C18 witness: a run has returned over a file of which some but not all
\* articles hold candidates; its articles are all counted and only the
\* qualifying ones have an ArticleResult.
C18_Witness ==
    /\ dpc = "done"
    /\ \E p \in directory :
          /\ directory = {p}
          /\ ~Failed(p)
          /\ Len(QualifyingArticles[p]) > 0
          /\ Len(QualifyingArticles[p]) < Len(DumpAt(p).pages)
          /\ Len(all_results) = Len(QualifyingArticles[p])
          /\ total_articles_processed = Len(DumpAt(p).pages)

\* the language of each dump file
LanguageOfFile == [p \in AllPaths |-> get_language_from_dump_path(p)]

\* the titles of the articles of each dump file
TitlesOfFile ==
    [p \in AllPaths |->
        {DumpAt(p).pages[k].title : k \in DOMAIN DumpAt(p).pages}]

\* per language and title, the candidate dicts find_potential_isbns gives
\* for the article, in extraction order
ExtractedByArticle ==
    [a \in UNION {{LanguageOfFile[p]} \X TitlesOfFile[p] : p \in AllPaths} |->
        LET p == CHOOSE q \in AllPaths :
                     LanguageOfFile[q] = a[1] /\ a[2] \in TitlesOfFile[q]
            k == CHOOSE j \in DOMAIN DumpAt(p).pages :
                     DumpAt(p).pages[j].title = a[2]
            found == CandidatesByArticle[p][k]
        IN  [j \in 1..Len(found) |-> CandidateDict(found[j])]]

\* the candidate dicts find_potential_isbns gives for the article an
\* ArticleResult was made from, in extraction order
ExtractedFor(r) == ExtractedByArticle[<<r.language, r.title>>]

RECURSIVE Interleaves(_, _, _)
\* whole is made of the elements of a and of b, each taken exactly once,
\* with the elements of a in their order and those of b in theirs
Interleaves(a, b, whole) ==
    IF whole = <<>> THEN a = <<>> /\ b = <<>>
    ELSE \/ /\ a # <<>>
            /\ Head(a) = Head(whole)
            /\ Interleaves(Tail(a), b, Tail(whole))
         \/ /\ b # <<>>
            /\ Head(b) = Head(whole)
            /\ Interleaves(a, Tail(b), Tail(whole))

\* C27: in every ArticleResult, total_found equals len(valid_isbns) +
\* len(invalid_isbns) and is at least 1, and the valid and the invalid list
\* together hold each extracted candidate of the article exactly once, each
\* list in extraction order.  Stated on every ArticleResult a worker has
\* returned and on every ArticleResult merged into all_results.
C27_ArticleResultPartition ==
    \A r \in {all_results[k] : k \in DOMAIN all_results}
             \cup UNION {{pool_results[i].dump_results[k] :
                             k \in DOMAIN pool_results[i].dump_results} :
                         i \in DOMAIN pool_results} :
        /\ r.total_found = Len(r.valid_isbns) + Len(r.invalid_isbns)
        /\ r.total_found >= 1
        /\ r.total_found = Len(ExtractedFor(r))
        /\ Interleaves(r.valid_isbns, r.invalid_isbns, ExtractedFor(r))

\* C27 witness: all_results holds an ArticleResult of an article with three
\* candidates of which the first and the second are valid and the third is
\* not.
C27_Witness ==
    \E k \in DOMAIN all_results :
        LET r == all_results[k] IN
        /\ r.total_found = 3
        /\ Len(r.valid_isbns) = 2
        /\ Len(r.invalid_isbns) = 1
        /\ ExtractedFor(r) = r.valid_isbns \o r.invalid_isbns

\* an ArticleResult whose invalid candidate was extracted before its valid
\* one
C27_InvalidBeforeValid ==
    \E k \in DOMAIN all_results :
        LET r == all_results[k] IN
        /\ r.valid_isbns # <<>>
        /\ r.invalid_isbns # <<>>
        /\ Head(ExtractedFor(r)) = Head(r.invalid_isbns)

\* C22: once the pool size is settled it is at least 1 and at most the
\* lesser of the number of dump files and the number of CPUs; -1 asks for
\* the CPUs less one, a size asked below 1 gives 1, a size asked from 1 on
\* is only ever lowered to those limits; and with a pool size of 1 no pool
\* task is started and the files are processed one after the other in
\* ascending order of their paths.
C22_EffectivePoolSize ==
    dpc \notin {"start", "empty"} =>
        LET asked == IF workers_arg = -1 THEN cpus - 1 ELSE workers_arg
            limit == Min(Len(dump_files), cpus)
        IN  /\ workers >= 1
            /\ workers <= limit
            /\ asked < 1 => workers = 1
            /\ asked >= 1 => workers = Min(asked, limit)
            /\ workers = 1 =>
                  /\ dpc \in {"sequential", "raised", "done"}
                  /\ \A k \in DOMAIN task : task[k] = "queued"
                  /\ pool_results = <<>>
                  /\ completed = SubSeq(dump_files, 1, idx)
                  /\ \A i, j \in DOMAIN dump_files :
                        i < j => StrLess(dump_files[i], dump_files[j])
            /\ workers > 1 => dpc \in {"pool", "merge", "done"}

\* C22's case: -1 asked on a machine with one CPU gives a pool of 1, and
\* three files have been processed one after the other
C22_Witness ==
    /\ workers_arg = -1
    /\ cpus = 1
    /\ workers = 1
    /\ dpc = "sequential"
    /\ idx = 3
    /\ completed = dump_files

\* supporting C22: -1 asked on a machine with three CPUs gives a pool of 2
C22_AllButOneCpu ==
    /\ workers_arg = -1
    /\ cpus = 3
    /\ Len(dump_files) = 3
    /\ workers = 2
    /\ dpc = "merge"

\* supporting C22: a size asked above the number of files is lowered to it
C22_LoweredToFiles ==
    /\ workers_arg = 2
    /\ Len(dump_files) = 1
    /\ cpus = 3
    /\ workers = 1
    /\ dpc = "done"

\* the aggregates as process_all_dumps creates them
AggregatesUntouched ==
    /\ all_results = <<>>
    /\ total_articles_processed = 0
    /\ language_times = <<>>
    /\ language_article_counts = <<>>

\* C23: with a pool size above 1 there is exactly one task per dump file
\* found, the tuple of a task is what processing its own file gives
\* whatever the other tasks do, no aggregate is touched while a task is
\* queued or running, and the merge runs only when every task has finished.
C23_MergeAfterAllTasks ==
    (dpc \notin {"start", "empty"} /\ workers > 1) =>
        /\ DOMAIN task = DOMAIN dump_files
        /\ {dump_files[k] : k \in DOMAIN dump_files} = directory
        /\ Len(dump_files) = Cardinality(directory)
        /\ DOMAIN pool_results = {k \in DOMAIN task : task[k] = "finished"}
        /\ \A k \in DOMAIN pool_results :
              /\ pool_results[k].dump_path = dump_files[k]
              /\ pool_results[k] = WorkerTuples[dump_files[k]]
        /\ (\E k \in DOMAIN task : task[k] # "finished") =>
              /\ dpc = "pool"
              /\ idx = 0
              /\ AggregatesUntouched
        /\ ~AggregatesUntouched => dpc \in {"merge", "done"}

\* C23's case: one task has returned results, one is running and one is
\* queued, and nothing is merged yet
C23_Witness ==
    /\ dpc = "pool"
    /\ \E i, j, k \in DOMAIN task :
          /\ task[i] = "finished" /\ pool_results[i].dump_results # <<>>
          /\ task[j] = "running"
          /\ task[k] = "queued"
    /\ AggregatesUntouched

\* supporting C23: the merge has run over the tuples of three tasks
C23_Merged ==
    /\ dpc = "merge"
    /\ workers = 2
    /\ idx = 3
    /\ all_results # <<>>

\* what a run over the directory returns when no file fails, written without
\* the pool size: the files' results in sorted file order and the sums of
\* the files' article counts
ReturnsOfDirectory ==
    /\ all_results
           = ResultsInOrder(Sorted(CHOOSE l \in Listings(directory) : TRUE))
    /\ total_articles_processed = Sum([p \in directory |-> FileArticles(p)])
    /\ DOMAIN language_article_counts
           = {get_language_from_dump_path(p) : p \in directory}
    /\ \A L \in DOMAIN language_article_counts :
          language_article_counts[L]
              = Sum([p \in FilesOfLanguage(directory, L) |-> FileArticles(p)])

\* C25: when no dump file fails, process_all_dumps returns the same
\* all_results list (same elements in the same order), the same
\* total_articles_processed and the same language_article_counts with an
\* effective pool size of 1 as with an effective pool size above 1: in both
\* modes the three values are the same function of the directory alone.
C25_SequentialEqualsParallel ==
    (dpc = "done" /\ \A p \in directory : ~Failed(p)) => ReturnsOfDirectory

\* C25 witness: a parallel run has returned in which no file failed, a
\* file later in the list completed before an earlier one, and both
\* files have ArticleResults in all_results.
C25_Witness ==
    /\ dpc = "done" /\ workers > 1
    /\ \A p \in directory : ~Failed(p)
    /\ \E i, j \in 1..Len(completed) :
          /\ i < j
          /\ StrLess(completed[j], completed[i])
          /\ FileResults(completed[i]) # <<>>
          /\ FileResults(completed[j]) # <<>>
          /\ FileResults(completed[i]) # FileResults(completed[j])
    /\ ReturnsOfDirectory

\* the same directory run to its end with an effective pool size of 1
C25_SequentialRun ==
    /\ dpc = "done" /\ workers = 1
    /\ Cardinality(directory) >= 2
    /\ \A p \in directory : ~Failed(p) /\ FileResults(p) # <<>>
    /\ ReturnsOfDirectory

\* C26: after any sequence of merged dump files, with or without failures,
\* the values of language_article_counts sum to total_articles_processed,
\* language_times and language_article_counts have the same key set, the
\* language of every merged ArticleResult is one of those keys, and
\* total_articles_processed is at least the number of merged ArticleResults,
\* so that "Articles without ISBNs" is never negative.
C26_AggregatesConsistent ==
    /\ Sum(language_article_counts) = total_articles_processed
    /\ DOMAIN language_times = DOMAIN language_article_counts
    /\ \A k \in DOMAIN all_results :
          all_results[k].language \in DOMAIN language_article_counts
    /\ total_articles_processed >= Len(all_results)

\* C26 witness: the merging loop of a parallel run has passed a failed file
\* and merged two files of one language, and more articles were processed
\* than hold a candidate.
C26_Witness ==
    /\ dpc = "merge"
    /\ \E k \in 1..idx : Failed(dump_files[k])
    /\ Cardinality(DOMAIN language_article_counts) = 1
    /\ Len(completed) = 2
    /\ Len(all_results) >= 2
    /\ total_articles_processed > Len(all_results)
    /\ Sum(language_article_counts) = total_articles_processed

\* a sequential run left by an exception after a merge keeps them too
C26_AfterSequentialFailure ==
    /\ dpc = "raised"
    /\ all_results # <<>>
    /\ Sum(language_article_counts) = total_articles_processed
    /\ DOMAIN language_times = DOMAIN language_article_counts

\* the files whose worker caught an exception with an empty str(e)
SilentFailures == {p \in AllPaths : Failed(p) /\ Processed[p].message = ""}

\* the languages of the files among the first n of dump_files that are in S
LanguagesMerged(n, S) ==
    {get_language_from_dump_path(dump_files[k]) :
        k \in {j \in 1..n : dump_files[j] \in S}}

\* C28: in parallel mode the merge treats a worker result as failed exactly
\* when the worker caught an exception, whatever the exception's message,
\* an empty one included: language_times and language_article_counts hold
\* an entry exactly for the languages of the files merged so far whose
\* worker caught no exception, so a failed file never creates a language
\* entry, not even a zero-valued one.
C28_FailedExactlyWhenCaught ==
    (dpc \in {"merge", "done"} /\ workers > 1) =>
        /\ DOMAIN language_times
               = LanguagesMerged(idx, AllPaths \ {p \in AllPaths : Failed(p)})
        /\ DOMAIN language_article_counts
               = LanguagesMerged(idx, AllPaths \ {p \in AllPaths : Failed(p)})

\* what the code does: "if error:" takes the result as failed exactly when
\* str(e) is not empty, and a file whose exception has an empty message is
\* merged as a file without articles
C28_FailedWhenMessageNotEmpty ==
    (dpc \in {"merge", "done"} /\ workers > 1) =>
        /\ DOMAIN language_times
               = LanguagesMerged(idx, (AllPaths \ {p \in AllPaths : Failed(p)})
                                          \cup SilentFailures)
        /\ DOMAIN language_article_counts = DOMAIN language_times

\* a parallel run has returned with zero-valued entries for the language of
\* a file whose worker caught an exception with an empty message
C28_ZeroValuedEntry ==
    /\ dpc = "done" /\ workers > 1
    /\ \E p \in directory :
          LET L == get_language_from_dump_path(p) IN
          /\ p \in SilentFailures
          /\ FilesOfLanguage(directory, L) = {p}
          /\ L \in DOMAIN language_times
          /\ language_times[L] = 0
          /\ L \in DOMAIN language_article_counts
          /\ language_article_counts[L] = 0

\* a parallel run has returned without an entry for the language of a file
\* whose worker caught an exception with a message
C28_NoEntryForLoudFailure ==
    /\ dpc = "done" /\ workers > 1
    /\ \E p \in directory :
          /\ Failed(p) /\ p \notin SilentFailures
          /\ get_language_from_dump_path(p) \notin DOMAIN language_times
          /\ get_language_from_dump_path(p)
                 \notin DOMAIN language_article_counts

\* the files of the directory that fail after the reader has yielded an
\* article with a candidate
PartWayFailures ==
    {p \in directory :
        /\ Failed(p)
        /\ DumpAt(p).fail_at >= 1
        /\ \E k \in 1..DumpAt(p).fail_at : CandidatesByArticle[p][k] # <<>>}

\* an ArticleResult made from an article of the file p
FromFile(r, p) == r.language = LanguageOfFile[p] /\ r.title \in TitlesOfFile[p]

\* the unfailed files of language L that the loop has taken so far
MergedOfLanguage(L) == {p \in MergedFiles : LanguageOfFile[p] = L}

\* C29: a dump file that fails part-way through its stream contributes
\* nothing at all: the ArticleResults and the article count accumulated
\* for the file before the failure are discarded, so every file's
\* contribution to the aggregates is all-or-nothing.  The tuple a worker
\* returns for a failed file holds no result, no time and no article; no
\* ArticleResult of a failed file is in all_results; and at every turn of
\* either loop all_results, the article counts and the times are those of
\* the whole unfailed files taken so far, a failed file adding 0 to each.
C29_AllOrNothing ==
    /\ \A i \in DOMAIN pool_results :
          Failed(pool_results[i].dump_path) =>
              /\ pool_results[i].dump_results = <<>>
              /\ pool_results[i].article_count = 0
              /\ pool_results[i].dump_time = 0
    /\ \A k \in DOMAIN all_results :
          \A p \in directory : Failed(p) => ~FromFile(all_results[k], p)
    /\ dpc \in {"sequential", "merge", "done", "raised"} =>
          /\ all_results = ResultsInOrder(SubSeq(dump_files, 1, idx))
          /\ total_articles_processed
                 = Sum([p \in MergedFiles |-> FileArticles(p)])
          /\ \A L \in Languages :
                /\ Entry(language_article_counts, L)
                       = Sum([p \in MergedOfLanguage(L) |-> FileArticles(p)])
                /\ Entry(language_times, L)
                       = Sum([p \in MergedOfLanguage(L) |-> FileSeconds(p)])

\* C29 witness: a parallel run has returned over a directory with a file
\* that failed after an article with a candidate was processed, each way of
\* failing (with and without a message) present, and an unfailed file; the
\* unfailed file's results and articles are all that the aggregates hold.
C29_Witness ==
    /\ dpc = "done" /\ workers > 1
    /\ \E p, q \in PartWayFailures :
          /\ p \in SilentFailures
          /\ q \notin SilentFailures
    /\ \E p \in directory :
          /\ ~Failed(p)
          /\ all_results = FileResults(p)
          /\ all_results # <<>>
          /\ total_articles_processed = FileArticles(p)

\* a sequential run left by the exception of a file that fails part-way,
\* after a whole file was merged
C29_SequentialFailure ==
    /\ dpc = "raised"
    /\ dump_files[idx + 1] \in PartWayFailures
    /\ idx = 1
    /\ all_results = FileResults(dump_files[1])
    /\ all_results # <<>>

(***************************************************************************)
(* Claims about the downloader.                                            *)
(***************************************************************************)

\* C19: at most max_connections downloads are in progress in every state:
\* active_downloads never holds more than max_connections entries, no more
\* than max_connections download_file calls hold a thread, and once
\* download_wikipedia_dumps has returned active_downloads is empty.
C19_ConnectionLimitRespected ==
    /\ Cardinality(DOMAIN active_downloads) <= max_connections
    /\ Cardinality(Running(job)) <= max_connections
    /\ wpc = "returned" => active_downloads = <<>>

\* the limit is reached while another download waits for a thread
C19_Witness ==
    /\ wpc = "pool"
    /\ Cardinality(DOMAIN active_downloads) = max_connections
    /\ \E lang_code \in DOMAIN job : job[lang_code].st = "queued"

\* supporting C19: every thread is held by a call that waits for the answer
\* to its HEAD, no download is active yet, and another call is queued
C19_ThreadsHeldBeforeDownload ==
    /\ wpc = "pool"
    /\ active_downloads = <<>>
    /\ Cardinality({l \in DOMAIN job : job[l].st = "head"}) = max_connections
    /\ \E lang_code \in DOMAIN job : job[lang_code].st = "queued"

\* supporting C19: a run that had more downloads than connections returns
\* with every download accounted for and none active
C19_ReturnsWithNoneActive ==
    /\ wpc = "returned"
    /\ Len(completed_downloads) > max_connections
    /\ active_downloads = <<>>

\* the file of a language is on disk in full
CompleteOnDisk(lang_code) ==
    /\ lang_code \in DOMAIN target_dir
    /\ target_dir[lang_code] = RemoteSize(lang_code)

\* the file of a language is on disk, but not in full
IncompleteOnDisk(lang_code) ==
    /\ lang_code \in DOMAIN target_dir
    /\ target_dir[lang_code] < RemoteSize(lang_code)

\* C20: when a run filters the requested languages, it skips exactly the
\* languages whose dump file is on disk in full: a language whose file was
\* left incomplete by an interrupted earlier run stays in the list of
\* languages to download.
C20_SkipsExactlyCompleteDumps ==
    [][StartRun =>
          to_download' =
              SelectSeq(languages_arg,
                        LAMBDA lang_code : ~CompleteOnDisk(lang_code))]_vars

\* supporting C20, what the filter does: it skips every language whose
\* file name is matched on disk, complete or not
C20_SkipsEveryMatchedFile ==
    [][StartRun =>
          to_download' =
              SelectSeq(languages_arg,
                        LAMBDA lang_code :
                            ~(/\ lang_code \in DOMAIN target_dir
                              /\ MatchedCode(DumpFileName(lang_code))
                                     = lang_code))]_vars

\* supporting C20: a second run that finds an incomplete file of a
\* requested language whose name the filter matches ends with the file
\* still incomplete and no download attempted for it
C20_IncompleteDumpLeftAlone ==
    \A k \in DOMAIN languages_arg :
       LET lang_code == languages_arg[k] IN
       (/\ wpc # "start"
        /\ lang_code \in existing
        /\ IncompleteOnDisk(lang_code))
           => lang_code \notin DOMAIN job

\* supporting C20: when download_file is reached for a file that is on disk
\* but incomplete, it resumes from the local size in append mode; a file
\* on disk in full is not fetched again
C20_ResumeFromLocalSize ==
    [][\A lang_code \in DOMAIN job :
          (/\ BeginDownload \/ HeadResponse
           /\ job[lang_code].st \in {"queued", "head"}
           /\ job'[lang_code].st \in {"get", "done"})
              => IF CompleteOnDisk(lang_code)
                 THEN job'[lang_code].st = "done"
                 ELSE IF IncompleteOnDisk(lang_code)
                 THEN /\ job'[lang_code].mode = "ab"
                      /\ job'[lang_code].resume_pos = target_dir[lang_code]
                 ELSE /\ job'[lang_code].mode = "wb"
                      /\ job'[lang_code].resume_pos = 0]_vars

\* a second run has skipped a requested language whose file is incomplete
C20_SkippedIncomplete ==
    /\ runs = 2
    /\ wpc = "returned"
    /\ \E k \in DOMAIN languages_arg :
          /\ IncompleteOnDisk(languages_arg[k])
          /\ languages_arg[k] \in existing

\* a second run resumes a file in append mode
C20_Resumed ==
    \E lang_code \in DOMAIN job :
       /\ runs = 2
       /\ job[lang_code].mode = "ab"
       /\ job[lang_code].st = "done"
       /\ job[lang_code].resume_pos > 0
       /\ CompleteOnDisk(lang_code)

(***************************************************************************)
(* Claims about find_available_dump (checked under FairSpecFind).          *)
(***************************************************************************)

\* what holds of the requests and sleeps of one call at every moment
FindWithinLimits ==
    LET n == Len(responses) IN
    /\ n <= 4
    /\ retry_count <= 3
    /\ retry_count \in {n - 1, n}
    /\ \A k \in 1..(n - 1) : responses[k] = "503"
    /\ Len(slept) \in {n, n + 1}
    /\ \A k \in 1..Len(slept) :
          slept[k] = IF k = 1 THEN request_delay
                     ELSE LET wait == request_delay * 2^(k - 1)
                          IN  IF wait < 60 THEN wait ELSE 60
    /\ (n > 0 /\ responses[n] \in {"404", "ConnectionError"}) =>
          fpc = "returned" /\ file_url = "None"
    /\ (n = 4 /\ responses[n] = "503") =>
          fpc = "returned" /\ file_url = "None"
    /\ (n > 0 /\ n < 4 /\ responses[n] = "503") => fpc \in {"sleep", "index"}

\* C24: a call of find_available_dump ends.  It asks for the index page
\* again only after an HTTPError 503, at most 3 times (4 requests in all),
\* sleeping min(60, request_delay * 2^k) before retry k; it returns None
\* after the fourth 503 and at once after any other failure.
C24_FindTerminates == []FindWithinLimits /\ <>(fpc = "returned")

\* C24's case: four requests answered 503, the sleeps before the retries
\* doubled and the last one capped at 60, None returned
C24_Witness ==
    /\ fpc = "returned"
    /\ responses = <<"503", "503", "503", "503">>
    /\ slept = <<8, 16, 32, 60>>
    /\ file_url = "None"

\* supporting C24: a URL is returned after two retries, from the fifth
\* date looked at
C24_UrlAfterRetries ==
    /\ fpc = "returned"
    /\ responses = <<"503", "503", "200">>
    /\ Len(dates) > 5
    /\ date_pos = 4
    /\ file_url = "url"

\* supporting C24: the index page names the newest date twice; the second
\* look at it found its page in-progress and went on without a URL
C24_NewestDateTwice ==
    /\ fpc \in {"dates", "returned"}
    /\ Len(dates) >= 2
    /\ dates[1] = dates[2]
    /\ date_pos >= 2
    /\ file_url = "None"

\* supporting C24: of more than five dates only five are looked at
C24_OnlyFiveDates == date_pos <= 5

====
